---- MODULE Spec2Model ----
(***************************************************************************)
(* Verification model of the candidate-record cleaning and scoring         *)
(* utilities: docs/utils/data_cleaning.py (Reconciler, early-stage pass,   *)
(* outcome pass) and docs/utils/feature_engineering.py (match features).   *)
(*                                                                         *)
(* A table is a sequence of rows; a row is a function from column names    *)
(* to cell values.  A text cell is a sequence of one-character strings,    *)
(* so that strip() and lower() are computed, not assumed.  A missing cell  *)
(* (NaN / None) is the value NA.                                           *)
(***************************************************************************)
EXTENDS Integers, Sequences, FiniteSets, TLC

VARIABLES
    table,      \* the table the caller currently holds (df = f(df))
    arg,        \* the caller's table object as it was when the last call began
    argAfter,   \* the very same object after the last call returned or raised
    ret,        \* the table returned by the last call (<<>> if it raised)
    raised,     \* "" or the exception the last call raised
    op,         \* the last operation called
    params,     \* the parameters of the last call
    prevOp,     \* the operation called before the last one
    prevParams, \* and its parameters
    calls,      \* number of calls made so far
    feedback_dtype, \* dtype of the column event_feedback of the caller's table
    fop,        \* the last feature function called
    fin,        \* the table (or argument) it was called on
    fret,       \* what it returned (<<>> if it raised)
    fraised,    \* "" or the exception it let through
    fflag,      \* its second parameter (is_expected, st_model is not None, score_columns)
    encoder,    \* what the external collaborator did during the call
    fcalls,     \* number of feature calls made so far
    geocoding_cache, \* _geocoding_cache
    hq_coords,  \* _hq_coords
    geoLog,     \* the geocoder calls made so far, with the delay after each
    early_first,   \* the table held in the run early-stage pass, then outcome pass
    outcome_first, \* the table held in the run outcome pass, then early-stage pass
    pipe_step,  \* number of passes made so far in the two runs
    run_raised  \* "" or the exception that ended the first and the second run

cleanVars ==
    <<table, arg, argAfter, ret, raised, op, params, prevOp, prevParams, calls, feedback_dtype>>

featureVars ==
    <<fop, fin, fret, fraised, fflag, encoder, fcalls, geocoding_cache, hq_coords, geoLog>>

pipeVars == <<early_first, outcome_first, pipe_step, run_raised>>

vars == <<cleanVars, featureVars, pipeVars>>

-----------------------------------------------------------------------------
(* Bounds of the model *)

MaxRows == 3
MaxCalls == 2
MaxFilterRows == 2
MaxFeatureRows == 2
MaxGeoCalls == 2
MaxPipelineRows == 2

-----------------------------------------------------------------------------
(* Text values *)

\* pandas missing value (NaN / None) of a cell
NA == <<"NaN">>

\* pd.isna / Series.isna
IsNa(v) == v = NA

\* Characters of the modelled texts, in code-point order (Python compares
\* str values by code point).
Ascii ==
    <<" ", "0", "1", "2", "3", "4", "5", "6", "7", "8", "9",
      "A", "B", "C", "E", "F", "H", "I", "M", "P", "R", "S", "T", "_",
      "a", "b", "c", "d", "e", "f", "h", "i", "j", "l", "m", "n", "o",
      "p", "r", "s", "t", "v", "w", "x", "y">>

Ord(c) == CHOOSE i \in 1..Len(Ascii) : Ascii[i] = c

\* Python: a < b on str
RECURSIVE StrLess(_, _)
StrLess(a, b) ==
    IF b = <<>> THEN FALSE
    ELSE IF a = <<>> THEN TRUE
    ELSE IF Head(a) = Head(b) THEN StrLess(Tail(a), Tail(b))
    ELSE Ord(Head(a)) < Ord(Head(b))

\* the lower-case letter of every upper-case ASCII letter
LowerOfUpper ==
    LET upper == <<"A", "B", "C", "D", "E", "F", "G", "H", "I", "J", "K", "L", "M",
                   "N", "O", "P", "Q", "R", "S", "T", "U", "V", "W", "X", "Y", "Z">>
        lower == <<"a", "b", "c", "d", "e", "f", "g", "h", "i", "j", "k", "l", "m",
                   "n", "o", "p", "q", "r", "s", "t", "u", "v", "w", "x", "y", "z">>
    IN  [c \in {upper[i] : i \in 1..26} |-> lower[CHOOSE i \in 1..26 : upper[i] = c]]

\* str.lower() on one character
LowerChar(c) == IF c \in DOMAIN LowerOfUpper THEN LowerOfUpper[c] ELSE c

\* Series.str.lower(): NaN stays NaN
RECURSIVE LowerFrom(_, _)
LowerFrom(s, i) ==
    IF i > Len(s) THEN <<>> ELSE <<LowerChar(s[i])>> \o LowerFrom(s, i + 1)

Lower(s) == IF IsNa(s) THEN NA ELSE LowerFrom(s, 1)

\* A character that has no escape in a string is written by its code point:
\* "U+000B" is the vertical tab, "U+00E9" the letter e with an acute accent,
\* "U+00A0" the no-break space. The characters outside ASCII are the accented
\* letter and the white space of Unicode above U+007F.
NonAscii ==
    {"U+00E9", "U+0085", "U+00A0", "U+1680", "U+2000", "U+2001", "U+2002",
     "U+2003", "U+2004", "U+2005", "U+2006", "U+2007", "U+2008", "U+2009",
     "U+200A", "U+2028", "U+2029", "U+202F", "U+205F", "U+3000"}

\* the characters str.strip() removes from both ends: every character for
\* which str.isspace() is true
Whitespace ==
    {" ", "\t", "\n", "U+000B", "\f", "\r", "U+001C", "U+001D", "U+001E", "U+001F"}
        \cup (NonAscii \ {"U+00E9"})

RECURSIVE LStrip(_)
LStrip(s) == IF s # <<>> /\ Head(s) \in Whitespace THEN LStrip(Tail(s)) ELSE s

RECURSIVE RStrip(_)
RStrip(s) ==
    IF s # <<>> /\ s[Len(s)] \in Whitespace THEN RStrip(SubSeq(s, 1, Len(s) - 1)) ELSE s

\* str.strip() / Series.str.strip(): NaN stays NaN
Strip(s) == IF IsNa(s) THEN NA ELSE RStrip(LStrip(s))

\* str(n) for a natural number n (the digits are Ascii[2..11])
RECURSIVE IntToStr(_)
IntToStr(n) ==
    IF n < 10 THEN <<Ascii[n + 2]>>
    ELSE IntToStr(n \div 10) \o <<Ascii[(n % 10) + 2]>>

-----------------------------------------------------------------------------
(* Generic table helpers *)

Range(s) == {s[i] : i \in 1..Len(s)}

\* the row with column c set to v (column added if absent)
SetCol(row, c, v) == (c :> v) @@ row

\* the row without the columns in cs
DropCols(row, cs) == [k \in DOMAIN row \ cs |-> row[k]]

\* positions of the rows of the group with key v in column c (df.groupby(c))
GroupOf(rows, c, v) == {i \in 1..Len(rows) : rows[i][c] = v}

\* df[c].nunique()
NUnique(rows, c) == Cardinality({rows[i][c] : i \in 1..Len(rows)} \ {NA})

\* the rows at the positions pos[k..], in that order (df.iloc[pos])
RECURSIVE RowsAt(_, _, _)
RowsAt(rows, pos, k) ==
    IF k > Len(pos) THEN <<>> ELSE <<rows[pos[k]]>> \o RowsAt(rows, pos, k + 1)

-----------------------------------------------------------------------------
(* Column names: clean_dataframe_columns *)

\* c.encode('ascii', 'ignore').decode(): the characters outside ASCII are dropped
RECURSIVE EncodeAsciiIgnore(_)
EncodeAsciiIgnore(c) ==
    IF c = <<>> THEN <<>>
    ELSE (IF Head(c) \in NonAscii THEN <<>> ELSE <<Head(c)>>) \o EncodeAsciiIgnore(Tail(c))

\* df.columns after clean_dataframe_columns(df): every name trimmed, then
\* encoded to ASCII and trimmed again; the frame itself is returned, so these
\* are the column names of the caller's frame from then on
clean_dataframe_columns(columns) ==
    [k \in 1..Len(columns) |-> RStrip(LStrip(EncodeAsciiIgnore(RStrip(LStrip(columns[k])))))]

-----------------------------------------------------------------------------
(* Identifier Reconciler: split_duplicate_ids_by_invariant_columns *)

\* invariant_columns = None
None == <<"None">>

\* the combination of invariant-column values of a row
Combo(row, inv) == [k \in 1..Len(inv) |-> row[inv[k]]]

\* sort order of one grouping key: values ascending, NaN last (dropna=False)
KeyLess(a, b) ==
    IF IsNa(a) THEN FALSE
    ELSE IF IsNa(b) THEN TRUE
    ELSE StrLess(a, b)

\* sort order of the group keys of groupby(invariant_columns): lexicographic
RECURSIVE ComboLess(_, _)
ComboLess(a, b) ==
    IF a = <<>> \/ b = <<>> THEN FALSE
    ELSE IF Head(a) = Head(b) THEN ComboLess(Tail(a), Tail(b))
    ELSE KeyLess(Head(a), Head(b))

\* len(group[invariant_columns].drop_duplicates()): NaN equals NaN; a frame
\* without columns is empty and drop_duplicates returns it as it is
NumUniqueCombos(rows, grp, inv) ==
    IF inv = <<>> THEN Cardinality(grp)
    ELSE Cardinality({Combo(rows[i], inv) : i \in grp})

\* idx + 1 as it would be with the subgroups taken in the order in which
\* their combinations first appear in the rows of the group
ComboNumberByAppearance(rows, grp, inv, c) ==
    LET first(d) == CHOOSE i \in grp :
                        /\ Combo(rows[i], inv) = d
                        /\ \A j \in grp : Combo(rows[j], inv) = d => i <= j
    IN  1 + Cardinality({d \in {Combo(rows[i], inv) : i \in grp} : first(d) < first(c)})

\* idx + 1 of the subgroup of combination c in
\* enumerate(group.groupby(invariant_columns, dropna=False))
ComboNumber(rows, grp, inv, c) ==
    1 + Cardinality({d \in {Combo(rows[i], inv) : i \in grp} : ComboLess(d, c)})

\* f"{group['Original_ID'].iloc[0]}_{idx + 1}"
SuffixedId(orig, n) == orig \o <<"_">> \o IntToStr(n)

\* split_id: the New_ID of row i, a member of the group grp of Original_ID
NewId(rows, grp, inv, i) ==
    IF NumUniqueCombos(rows, grp, inv) = 1
    THEN rows[i]["ID"]
    ELSE SuffixedId(rows[i]["ID"], ComboNumber(rows, grp, inv, Combo(rows[i], inv)))

\* group.groupby([]) raises ValueError("No group keys passed!"): reached when
\* invariant_columns is empty and some identifier has more than one row (the
\* rows without an identifier are in no group)
SplitRaises(rows, inv) ==
    /\ inv = <<>>
    /\ \E i \in 1..Len(rows) :
          /\ ~IsNa(rows[i]["ID"])
          /\ Cardinality(GroupOf(rows, "ID", rows[i]["ID"])) > 1

\* the exception split_duplicate_ids_by_invariant_columns raises, "" if none.
\* When no row has an identifier, groupby('Original_ID') has no group, apply
\* returns an empty frame with the columns of df, and df['New_ID'] raises.
ReconcileError(rows, inv) ==
    IF inv = None THEN "ValueError: You must provide a list of invariant_columns."
    ELSE IF \A i \in 1..Len(rows) : IsNa(rows[i]["ID"]) THEN "KeyError: 'New_ID'"
    ELSE IF SplitRaises(rows, inv) THEN "ValueError: No group keys passed!"
    ELSE ""

\* the table split_duplicate_ids_by_invariant_columns returns.
\* groupby('Original_ID') has the default dropna=True: a row whose identifier
\* is missing is in no group and is not in the result of apply. The other
\* rows come back in the order of the input, ID replaced by New_ID, the
\* helper columns dropped, the index renumbered.
ReconcileRows(rows, inv) ==
    LET grouped == SelectSeq(rows, LAMBDA r : ~IsNa(r["ID"]))
    IN  [i \in 1..Len(grouped) |->
            DropCols(SetCol(grouped[i], "ID",
                            NewId(grouped, GroupOf(grouped, "ID", grouped[i]["ID"]), inv, i)),
                     {"New_ID", "Original_ID"})]

\* df['Original_ID'] = df['ID'], from row i on
RECURSIVE WithOriginalId(_, _)
WithOriginalId(rows, i) ==
    IF i > Len(rows) THEN <<>>
    ELSE <<SetCol(rows[i], "Original_ID", rows[i]["ID"])>> \o WithOriginalId(rows, i + 1)

\* the caller's table object after the call: df['Original_ID'] = df['ID'] is
\* executed on it before df is rebound (not reached when the None check raises)
ReconcileArgAfter(rows, inv) ==
    IF inv = None THEN rows ELSE WithOriginalId(rows, 1)

-----------------------------------------------------------------------------
(* Lifecycle filter, early-stage pass: remove_initial_stage_candidates *)

imported == <<"i", "m", "p", "o", "r", "t", "e", "d">>
first_contact == <<"f", "i", "r", "s", "t", " ", "c", "o", "n", "t", "a", "c", "t">>
in_selection == <<"i", "n", " ", "s", "e", "l", "e", "c", "t", "i", "o", "n">>

\* the list passed to isin() for the early stages
InitialStages == {imported, first_contact, in_selection}

\* df[c] = df[c].str.strip().str.lower(), executed on the caller's table
RECURSIVE StripLowerColFrom(_, _, _)
StripLowerColFrom(rows, c, i) ==
    IF i > Len(rows) THEN <<>>
    ELSE <<SetCol(rows[i], c, Lower(Strip(rows[i][c])))>> \o StripLowerColFrom(rows, c, i + 1)

StripLowerCol(rows, c) == StripLowerColFrom(rows, c, 1)

\* df[c] = df[c].str.strip(), executed on the caller's table
RECURSIVE StripColFrom(_, _, _)
StripColFrom(rows, c, i) ==
    IF i > Len(rows) THEN <<>>
    ELSE <<SetCol(rows[i], c, Strip(rows[i][c]))>> \o StripColFrom(rows, c, i + 1)

StripCol(rows, c) == StripColFrom(rows, c, 1)

\* the identifiers of a table
IdsOf(rows) == {rows[i]["ID"] : i \in 1..Len(rows)}

\* IsInitialStageOnly without the is_single_row condition
IsInitialStageOnlyAnySize(rows, grp) ==
    /\ \A i \in grp : rows[i]["Candidate State"] \in InitialStages
    /\ \A i \in grp : IsNa(rows[i]["Sector"])

\* the test made on one group of df.groupby('ID'), rows already normalized
IsInitialStageOnly(rows, grp) ==
    /\ Cardinality(grp) = 1
    /\ \A i \in grp : rows[i]["Candidate State"] \in InitialStages
    /\ \A i \in grp : IsNa(rows[i]["Sector"])

\* ids_to_drop of remove_initial_stage_candidates, rows already normalized
InitialStageIdsToDrop(rows) ==
    {id \in IdsOf(rows) : IsInitialStageOnly(rows, GroupOf(rows, "ID", id))}

\* the caller's table object after remove_initial_stage_candidates
EarlyArgAfter(rows) == StripLowerCol(rows, "Candidate State")

\* df[~df['ID'].isin(ids)].reset_index(drop=True)
RECURSIVE WithoutIdsFrom(_, _, _)
WithoutIdsFrom(rows, ids, i) ==
    IF i > Len(rows) THEN <<>>
    ELSE (IF rows[i]["ID"] \in ids THEN <<>> ELSE <<rows[i]>>)
         \o WithoutIdsFrom(rows, ids, i + 1)

WithoutIds(rows, ids) == WithoutIdsFrom(rows, ids, 1)

\* EarlyRows as it would be with the test made on the states as given
EarlyRowsUnnormalized(rows) ==
    WithoutIds(rows, InitialStageIdsToDrop(rows))

\* the table remove_initial_stage_candidates returns
EarlyRows(rows) ==
    LET norm == EarlyArgAfter(rows)
    IN  WithoutIds(norm, InitialStageIdsToDrop(norm))

-----------------------------------------------------------------------------
(* Lifecycle filter, outcome pass: sort_group, remove_not_hired_valid_candidates *)

hired == <<"h", "i", "r", "e", "d">>
economic_proposal ==
    <<"e", "c", "o", "n", "o", "m", "i", "c", " ", "p", "r", "o", "p", "o", "s", "a", "l">>
candidate_notification ==
    <<"c", "a", "n", "d", "i", "d", "a", "t", "e", " ",
      "n", "o", "t", "i", "f", "i", "c", "a", "t", "i", "o", "n">>

\* the event types whose terminal occurrence removes a candidate
RemovalEvents == {economic_proposal, candidate_notification}

\* list.index(x) from position i on (0-based result), -1 if x is not there
RECURSIVE IndexFrom(_, _, _)
IndexFrom(list, x, i) ==
    IF i > Len(list) THEN -1
    ELSE IF list[i] = x THEN i - 1
    ELSE IndexFrom(list, x, i + 1)

\* list.index(x) if x in list else -1
IndexOrMinus1(list, x) == IndexFrom(list, x, 1)

\* the key function of sort_group: applied to the values of either column, it
\* returns the pair (rank in state_order, rank in event_order) of that value
SortKeyOfValue(x, state_order, event_order) ==
    <<IndexOrMinus1(state_order, x), IndexOrMinus1(event_order, x)>>

\* the sort key of a row: by=['Candidate State', 'event_type__val'], each
\* column mapped by the key function
RowSortKey(row, state_order, event_order) ==
    SortKeyOfValue(row["Candidate State"], state_order, event_order)
        \o SortKeyOfValue(row["event_type__val"], state_order, event_order)

\* tuple comparison a < b
RECURSIVE TupleLess(_, _)
TupleLess(a, b) ==
    IF a = <<>> \/ b = <<>> THEN FALSE
    ELSE IF Head(a) = Head(b) THEN TupleLess(Tail(a), Tail(b))
    ELSE Head(a) < Head(b)

\* the positions of a group in input order
RECURSIVE InOrder(_)
InOrder(grp) ==
    IF grp = {} THEN <<>>
    ELSE LET m == CHOOSE i \in grp : \A j \in grp : i <= j
         IN  <<m>> \o InOrder(grp \ {m})

\* one step of a stable sort: position i is put behind every position of s
\* whose key is not greater than its own
RECURSIVE InsertByKey(_, _, _, _, _)
InsertByKey(rows, s, i, state_order, event_order) ==
    IF s = <<>> THEN <<i>>
    ELSE IF TupleLess(RowSortKey(rows[i], state_order, event_order),
                      RowSortKey(rows[s[Len(s)]], state_order, event_order))
         THEN InsertByKey(rows, SubSeq(s, 1, Len(s) - 1), i, state_order, event_order)
                  \o <<s[Len(s)]>>
         ELSE s \o <<i>>

\* the first n positions of ps, sorted
RECURSIVE SortPrefix(_, _, _, _, _)
SortPrefix(rows, ps, n, state_order, event_order) ==
    IF n = 0 THEN <<>>
    ELSE InsertByKey(rows, SortPrefix(rows, ps, n - 1, state_order, event_order),
                     ps[n], state_order, event_order)

\* sort_group: the positions of the group in sorted order; sort_values on
\* several columns is a stable sort, so equal keys keep their input order
SortGroup(rows, grp, state_order, event_order) ==
    SortPrefix(rows, InOrder(grp), Cardinality(grp), state_order, event_order)

\* the group keys in the order of df.groupby('ID'): ascending
RECURSIVE SortedIds(_)
SortedIds(ids) ==
    IF ids = {} THEN <<>>
    ELSE LET m == CHOOSE a \in ids : \A b \in ids \ {a} : StrLess(a, b)
         IN  <<m>> \o SortedIds(ids \ {m})

RECURSIVE Flatten(_)
Flatten(ss) == IF ss = <<>> THEN <<>> ELSE Head(ss) \o Flatten(Tail(ss))

\* df.groupby('ID', group_keys=False).apply(sort_group, ...).reset_index(drop=True):
\* when no group changes order the result keeps the order of the input,
\* otherwise the sorted groups are concatenated in the order of their keys
ApplySortGroup(rows, state_order, event_order) ==
    LET grp(id) == GroupOf(rows, "ID", id)
        sorted(id) == SortGroup(rows, grp(id), state_order, event_order)
        ids == SortedIds(IdsOf(rows))
    IN  IF \A id \in IdsOf(rows) : sorted(id) = InOrder(grp(id))
        THEN rows
        ELSE LET pos == Flatten([k \in 1..Len(ids) |-> sorted(ids[k])])
             IN  RowsAt(rows, pos, 1)

\* df['Hired'] = df['Candidate State'].apply(lambda x: x == 'hired'), from row i on
RECURSIVE WithHired(_, _)
WithHired(rows, i) ==
    IF i > Len(rows) THEN <<>>
    ELSE <<SetCol(rows[i], "Hired", rows[i]["Candidate State"] = hired)>>
         \o WithHired(rows, i + 1)

\* the three normalisations and the Hired column, executed on the caller's table
OutcomeArgAfter(rows) ==
    WithHired(StripCol(StripLowerCol(StripLowerCol(rows, "Candidate State"),
                                     "event_type__val"), "event_feedback"), 1)

\* the exception remove_not_hired_valid_candidates raises, "" if none: the
\* .str accessor of line 185 accepts a column of object dtype only (the
\* columns Candidate State and event_type__val of the tables are texts)
OutcomeError(dtype) ==
    IF dtype = "object" THEN ""
    ELSE "AttributeError: Can only use .str accessor with string values!"

\* the caller's table when line 185 raises: the two normalisations before it
\* are done, the Hired column is not added
OutcomeArgAfterRaise(rows) ==
    StripLowerCol(StripLowerCol(rows, "Candidate State"), "event_type__val")

\* df.groupby('ID').tail(1): position of the last row of the identifier
LastEvent(rows, id) ==
    CHOOSE i \in GroupOf(rows, "ID", id) : \A j \in GroupOf(rows, "ID", id) : j <= i

\* ids_to_remove_feedback, on the sorted table
IdsToRemoveFeedback(rows, feedbacks_to_remove) ==
    {id \in IdsOf(rows) :
        LET last == rows[LastEvent(rows, id)]
        IN  /\ last["event_feedback"] \in Range(feedbacks_to_remove)
            /\ last["Hired"] # TRUE}

\* IdsToRemoveEvent without the Hired condition
IdsToRemoveEventAnyState(rows) ==
    {id \in IdsOf(rows) : rows[LastEvent(rows, id)]["event_type__val"] \in RemovalEvents}

\* ids_to_remove_event, on the sorted table
IdsToRemoveEvent(rows) ==
    {id \in IdsOf(rows) :
        LET last == rows[LastEvent(rows, id)]
        IN  /\ last["event_type__val"] \in RemovalEvents
            /\ last["Hired"] # TRUE}

\* RemoveNotHired as it would be if only the terminal row of a marked
\* identifier were dropped
RemoveNotHiredTerminalOnly(norm, state_order, event_order, feedbacks_to_remove) ==
    LET sorted == ApplySortGroup(norm, state_order, event_order)
        all_ids_to_remove ==
            IdsToRemoveFeedback(sorted, feedbacks_to_remove) \cup IdsToRemoveEvent(sorted)
        keep == {i \in 1..Len(sorted) :
                    ~(/\ sorted[i]["ID"] \in all_ids_to_remove
                      /\ i = LastEvent(sorted, sorted[i]["ID"]))}
    IN  RowsAt(sorted, InOrder(keep), 1)

\* remove_not_hired_valid_candidates from the sort on: norm is the table
\* with its columns normalised and the Hired column added
RemoveNotHired(norm, state_order, event_order, feedbacks_to_remove) ==
    LET sorted == ApplySortGroup(norm, state_order, event_order)
        all_ids_to_remove ==
            IdsToRemoveFeedback(sorted, feedbacks_to_remove) \cup IdsToRemoveEvent(sorted)
    IN  WithoutIds(sorted, all_ids_to_remove)

\* the table remove_not_hired_valid_candidates returns
OutcomeRows(rows, state_order, event_order, feedbacks_to_remove) ==
    RemoveNotHired(OutcomeArgAfter(rows), state_order, event_order, feedbacks_to_remove)

-----------------------------------------------------------------------------
(* Match features: numbers *)

\* A float is the exact fraction <<n, d>> in lowest terms with d > 0; np.nan
\* is <<0, 0>>, float('inf') is <<1, 0>> and float('-inf') is <<-1, 0>>.
\* Numeric cells and scores are floats, text cells are texts.
NaN == <<0, 0>>

Inf == <<1, 0>>

\* pd.isna on a number
IsNaN(x) == x[2] = 0 /\ x[1] = 0

\* math.isinf
IsInf(x) == x[2] = 0 /\ x[1] # 0

Abs(n) == IF n < 0 THEN -n ELSE n

RECURSIVE Gcd(_, _)
Gcd(a, b) == IF b = 0 THEN a ELSE Gcd(b, a % b)

\* the float n / d, d # 0
Rat(n, d) ==
    LET g == Gcd(Abs(n), Abs(d))
        s == IF d < 0 THEN -1 ELSE 1
    IN  <<(s * n) \div g, (s * d) \div g>>

\* the float of an int
Num(n) == <<n, 1>>

\* x - y, x + y, x / y (y # 0) on floats; NaN is contagious, inf - inf and
\* inf / inf are NaN
RatSub(x, y) ==
    IF IsNaN(x) \/ IsNaN(y) THEN NaN
    ELSE IF IsInf(x) THEN (IF y = x THEN NaN ELSE x)
    ELSE IF IsInf(y) THEN <<-y[1], 0>>
    ELSE Rat(x[1] * y[2] - y[1] * x[2], x[2] * y[2])

RatAdd(x, y) ==
    IF IsNaN(x) \/ IsNaN(y) THEN NaN
    ELSE IF IsInf(x) THEN (IF IsInf(y) /\ y # x THEN NaN ELSE x)
    ELSE IF IsInf(y) THEN y
    ELSE Rat(x[1] * y[2] + y[1] * x[2], x[2] * y[2])

RatDiv(x, y) ==
    IF IsNaN(x) \/ IsNaN(y) THEN NaN
    ELSE IF IsInf(x) THEN (IF IsInf(y) THEN NaN
                           ELSE IF y[1] < 0 THEN <<-x[1], 0>> ELSE x)
    ELSE IF IsInf(y) THEN Num(0)
    ELSE Rat(x[1] * y[2], x[2] * y[1])

\* x < y, x <= y on floats; every comparison with NaN is False
RatLess(x, y) ==
    /\ ~IsNaN(x)
    /\ ~IsNaN(y)
    /\ IF IsInf(x) THEN x[1] < 0 /\ y # x
       ELSE IF IsInf(y) THEN y[1] > 0
       ELSE x[1] * y[2] < y[1] * x[2]

RatLeq(x, y) ==
    /\ ~IsNaN(x)
    /\ ~IsNaN(y)
    /\ IF IsInf(x) THEN x[1] < 0 \/ y = x
       ELSE IF IsInf(y) THEN y[1] > 0
       ELSE x[1] * y[2] <= y[1] * x[2]

\* Series.min() / Series.max(): NaN skipped, NaN when nothing is left
SeriesMin(xs) ==
    LET present == {x \in Range(xs) : ~IsNaN(x)}
    IN  IF present = {} THEN NaN
        ELSE CHOOSE m \in present : \A x \in present : RatLeq(m, x)

SeriesMax(xs) ==
    LET present == {x \in Range(xs) : ~IsNaN(x)}
    IN  IF present = {} THEN NaN
        ELSE CHOOSE m \in present : \A x \in present : RatLeq(x, m)

\* the values of column c, row by row
Column(rows, c) == [i \in 1..Len(rows) |-> rows[i][c]]

-----------------------------------------------------------------------------
(* Match features: education level, experience match, salary fit *)

ordered_levels ==
    << <<"M", "i", "d", "d", "l", "e", " ", "s", "c", "h", "o", "o", "l", " ", "d", "i", "p", "l", "o", "m", "a">>,
       <<"H", "i", "g", "h", " ", "s", "c", "h", "o", "o", "l", " ", "g", "r", "a", "d", "u", "a", "t", "i", "o", "n">>,
       <<"P", "r", "o", "f", "e", "s", "s", "i", "o", "n", "a", "l", " ", "q", "u", "a", "l", "i", "f", "i", "c", "a", "t", "i", "o", "n">>,
       <<"T", "h", "r", "e", "e", "-", "y", "e", "a", "r", " ", "d", "e", "g", "r", "e", "e">>,
       <<"F", "i", "v", "e", "-", "y", "e", "a", "r", " ", "d", "e", "g", "r", "e", "e">>,
       <<"m", "a", "s", "t", "e", "r", "'", "s", " ", "d", "e", "g", "r", "e", "e">>,
       <<"D", "o", "c", "t", "o", "r", "a", "t", "e">> >>

\* level_to_rank[level], 0-based; -1 stands for "not in level_to_rank"
LevelRank(level) == IndexOrMinus1(ordered_levels, level)

\* len(ordered_levels) - 1
max_distance == Len(ordered_levels) - 1


\* _calculate_score of calculate_study_title_score as it would be with the
\* number of levels, not the largest distance, as divisor
StudyTitleScoreByLevelCount(candidate_level, required_level) ==
    IF IsNa(candidate_level) \/ IsNa(required_level) THEN NaN
    ELSE IF LevelRank(candidate_level) = -1 \/ LevelRank(required_level) = -1 THEN NaN
    ELSE Rat(LevelRank(candidate_level) - LevelRank(required_level), Len(ordered_levels))

\* _calculate_score of calculate_study_title_score
StudyTitleScore(candidate_level, required_level) ==
    IF IsNa(candidate_level) \/ IsNa(required_level) THEN NaN
    ELSE IF LevelRank(candidate_level) = -1 \/ LevelRank(required_level) = -1 THEN NaN
    ELSE Rat(LevelRank(candidate_level) - LevelRank(required_level), max_distance)

\* calculate_study_title_score(df)
calculate_study_title_score(rows) ==
    [i \in 1..Len(rows) |-> StudyTitleScore(rows[i]["Study Title"], rows[i]["Study Level"])]

\* global_min, global_max over both experience columns
ExperienceGlobalMin(rows) ==
    SeriesMin(Column(rows, "Years Experience_int") \o Column(rows, "Years Experience.1_int"))

ExperienceGlobalMax(rows) ==
    SeriesMax(Column(rows, "Years Experience_int") \o Column(rows, "Years Experience.1_int"))

\* max_range as it would be with the range taken over the candidate years
\* alone
ExperienceMaxRangeCandidateOnly(rows) ==
    LET lo == SeriesMin(Column(rows, "Years Experience_int"))
        hi == SeriesMax(Column(rows, "Years Experience_int"))
    IN  IF IsNaN(hi) \/ IsNaN(lo) \/ hi # lo THEN RatSub(hi, lo) ELSE Num(1)

\* max_range as it would be with the range taken over the required years
\* alone
ExperienceMaxRangeRequiredOnly(rows) ==
    LET lo == SeriesMin(Column(rows, "Years Experience.1_int"))
        hi == SeriesMax(Column(rows, "Years Experience.1_int"))
    IN  IF IsNaN(hi) \/ IsNaN(lo) \/ hi # lo THEN RatSub(hi, lo) ELSE Num(1)

\* max_range = global_max - global_min if global_max != global_min else 1
\* (NaN != NaN is True)
ExperienceMaxRange(rows) ==
    LET lo == ExperienceGlobalMin(rows)
        hi == ExperienceGlobalMax(rows)
    IN  IF IsNaN(hi) \/ IsNaN(lo) \/ hi # lo THEN RatSub(hi, lo) ELSE Num(1)

\* _calculate_score of calculate_experience_match_score
ExperienceScore(candidate_exp, job_req_exp, max_range) ==
    IF IsNaN(job_req_exp) THEN Num(0)
    ELSE RatDiv(RatSub(candidate_exp, job_req_exp), max_range)

\* calculate_experience_match_score(df)
calculate_experience_match_score(rows) ==
    [i \in 1..Len(rows) |->
        ExperienceScore(rows[i]["Years Experience_int"], rows[i]["Years Experience.1_int"],
                        ExperienceMaxRange(rows))]

\* the scale factor when the range is empty and min_ral is not positive
DefaultScale == 1000

\* _calculate_score of calculate_salary_fit_score as it would be with the
\* upper bound of the range excluded
SalaryScoreExclusiveMax(expected_ral, min_ral, max_ral) ==
    IF IsNaN(expected_ral) \/ IsNaN(min_ral) \/ IsNaN(max_ral) THEN NaN
    ELSE IF RatLeq(min_ral, expected_ral) /\ RatLess(expected_ral, max_ral) THEN Num(1)
    ELSE LET distance == IF RatLess(expected_ral, min_ral)
                         THEN RatSub(expected_ral, min_ral)
                         ELSE RatSub(expected_ral, max_ral)
             range_size == RatSub(max_ral, min_ral)
             scale1 == IF RatLess(Num(0), range_size) THEN range_size ELSE min_ral
             scale_factor == IF RatLeq(scale1, Num(0)) THEN Num(DefaultScale) ELSE scale1
         IN  RatDiv(distance, scale_factor)

\* _calculate_score of calculate_salary_fit_score
SalaryScore(expected_ral, min_ral, max_ral) ==
    IF IsNaN(expected_ral) \/ IsNaN(min_ral) \/ IsNaN(max_ral) THEN NaN
    ELSE IF RatLeq(min_ral, expected_ral) /\ RatLeq(expected_ral, max_ral) THEN Num(1)
    ELSE LET distance == IF RatLess(expected_ral, min_ral)
                         THEN RatSub(expected_ral, min_ral)
                         ELSE RatSub(expected_ral, max_ral)
             range_size == RatSub(max_ral, min_ral)
             scale1 == IF RatLess(Num(0), range_size) THEN range_size ELSE min_ral
             scale_factor == IF RatLeq(scale1, Num(0)) THEN Num(DefaultScale) ELSE scale1
         IN  RatDiv(distance, scale_factor)

\* calculate_salary_fit_score(df, is_expected)
calculate_salary_fit_score(rows, is_expected) ==
    [i \in 1..Len(rows) |->
        SalaryScore(rows[i][IF is_expected THEN "Expected Ral" ELSE "Current Ral"],
                    rows[i]["Minimum Ral"], rows[i]["Ral Maximum"])]

-----------------------------------------------------------------------------
(* Match features: the embedding collaborator (SentenceTransformer) *)

\* model.encode(text) either raises or returns a vector; the collaborator is
\* a function enc from texts to outcomes, chosen by the environment
EncodeRaises == <<>>

\* the vectors the collaborator may return (integer norms 1, 1, 5)
Embeddings == {<<1, 0>>, <<0, 1>>, <<3, 4>>}

EncodeOutcomes == Embeddings \cup {EncodeRaises}

\* the Euclidean norm of a vector of Embeddings
VecNorm(v) == CHOOSE n \in 0..(Abs(v[1]) + Abs(v[2])) : n * n = v[1] * v[1] + v[2] * v[2]

\* util.cos_sim(a, b) / cosine_similarity(a, b)[0][0]
CosSim(a, b) == Rat(a[1] * b[1] + a[2] * b[2], VecNorm(a) * VecNorm(b))

-----------------------------------------------------------------------------
(* Match features: study-area and professional similarity *)

\* pd.concat([df['Study area'], df['Study Area.1']]).dropna().unique()
AllStudyAreas(rows) ==
    {v \in Range(Column(rows, "Study area")) \cup Range(Column(rows, "Study Area.1")) :
        ~IsNa(v)}

\* the exception calculate_study_area_score lets through: model.encode raising
\* while the embeddings are precomputed ("" if none)
StudyAreaError(rows, enc) ==
    IF \E s \in AllStudyAreas(rows) : enc[s] = EncodeRaises
    THEN "Exception: model.encode" ELSE ""

\* _score of calculate_study_area_score
StudyAreaScore(a, b, enc) ==
    IF IsNa(a) \/ IsNa(b) THEN NaN ELSE CosSim(enc[a], enc[b])

\* calculate_study_area_score(df), when it returns
calculate_study_area_score(rows, enc) ==
    [i \in 1..Len(rows) |-> StudyAreaScore(rows[i]["Study area"], rows[i]["Study Area.1"], enc)]

\* ' | '.join(parts)
RECURSIVE JoinWith(_, _)
JoinWith(parts, sep) ==
    IF parts = <<>> THEN <<>>
    ELSE IF Len(parts) = 1 THEN parts[1]
    ELSE parts[1] \o sep \o JoinWith(Tail(parts), sep)

\* [str(f).strip() for f in fields if pd.notna(f) and str(f).strip()]
RECURSIVE NonEmptyStripped(_)
NonEmptyStripped(fields) ==
    IF fields = <<>> THEN <<>>
    ELSE (IF ~IsNa(Head(fields)) /\ Strip(Head(fields)) # <<>>
          THEN <<Strip(Head(fields))>> ELSE <<>>) \o NonEmptyStripped(Tail(fields))

\* build_text(*fields); None is NA
build_text(fields) ==
    IF NonEmptyStripped(fields) = <<>> THEN NA
    ELSE JoinWith(NonEmptyStripped(fields), <<" ", "|", " ">>)

ProfCandidateText(row) == build_text(<<row["Sector"], row["Last Role"]>>)

ProfJobText(row) == build_text(<<row["Job Family Hiring"], row["Job Title Hiring"]>>)

\* the texts get_embedding is called on, over all rows
ProfEncodedTexts(rows) ==
    UNION {IF IsNa(ProfCandidateText(rows[i])) \/ IsNa(ProfJobText(rows[i])) THEN {}
           ELSE {ProfCandidateText(rows[i]), ProfJobText(rows[i])} : i \in 1..Len(rows)}

\* the exception calculate_professional_similarity_score lets through
ProfessionalError(rows, enc) ==
    IF \E s \in ProfEncodedTexts(rows) : enc[s] = EncodeRaises
    THEN "Exception: model.encode" ELSE ""

\* _similarity of calculate_professional_similarity_score
ProfessionalScore(row, enc) ==
    IF IsNa(ProfCandidateText(row)) \/ IsNa(ProfJobText(row)) THEN NaN
    ELSE CosSim(enc[ProfCandidateText(row)], enc[ProfJobText(row)])

\* calculate_professional_similarity_score(df), when it returns
calculate_professional_similarity_score(rows, enc) ==
    [i \in 1..Len(rows) |-> ProfessionalScore(rows[i], enc)]

-----------------------------------------------------------------------------
(* Match features: text-based similarity *)

\* the education part of the candidate text
CandidateStudyPart(row) ==
    IF ~IsNa(row["Study Title"]) /\ ~IsNa(row["Study area"])
    THEN <<row["Study Title"] \o <<" ", "i", "n", " ">> \o row["Study area"]>>
    ELSE IF ~IsNa(row["Study Title"]) THEN <<<<"S", "t", "u", "d", "i", "e", "d", " ">> \o row["Study Title"]>>
    ELSE IF ~IsNa(row["Study area"]) THEN <<<<"S", "t", "u", "d", "i", "e", "d", " ", "i", "n", " ">> \o row["Study area"]>>
    ELSE <<>>

\* parts.append(prefix + row[c] + suffix) if pd.notna(row.get(c))
PartIfPresent(row, c, prefix, suffix) ==
    IF IsNa(row[c]) THEN <<>> ELSE <<prefix \o row[c] \o suffix>>

\* create_candidate_text(row)
create_candidate_text(row) ==
    JoinWith(CandidateStudyPart(row)
             \o PartIfPresent(row, "Sector", <<"W", "o", "r", "k", "e", "d", " ", "i", "n", " ", "t", "h", "e", " ">>, <<" ", "s", "e", "c", "t", "o", "r">>)
             \o PartIfPresent(row, "Last Role", <<"L", "a", "s", "t", " ", "h", "e", "l", "d", " ", "t", "h", "e", " ", "r", "o", "l", "e", " ", "o", "f", " ">>, <<>>)
             \o PartIfPresent(row, "Years Experience", <<"w", "i", "t", "h", " ">>, <<" ", "y", "e", "a", "r", "s", " ", "o", "f", " ", "e", "x", "p", "e", "r", "i", "e", "n", "c", "e">>)
             \o PartIfPresent(row, "TAG", <<"K", "e", "y", " ", "s", "k", "i", "l", "l", "s", " ", "i", "n", "c", "l", "u", "d", "e", ":", " ">>, <<>>),
             <<".", " ">>) \o <<".">>

\* the education part of the job text
JobStudyPart(row) ==
    IF ~IsNa(row["Study Level"]) /\ ~IsNa(row["Study Area.1"])
    THEN <<<<"E", "d", "u", "c", "a", "t", "i", "o", "n", "a", "l", " ", "r", "e", "q", "u", "i", "r", "e", "m", "e", "n", "t", ":", " ">> \o row["Study Level"] \o <<" ", "i", "n", " ">> \o row["Study Area.1"]>>
    ELSE IF ~IsNa(row["Study Level"])
    THEN <<<<"E", "d", "u", "c", "a", "t", "i", "o", "n", "a", "l", " ", "r", "e", "q", "u", "i", "r", "e", "m", "e", "n", "t", ":", " ">> \o row["Study Level"]>>
    ELSE IF ~IsNa(row["Study Area.1"])
    THEN <<<<"F", "i", "e", "l", "d", " ", "o", "f", " ", "s", "t", "u", "d", "y", " ", "r", "e", "q", "u", "i", "r", "e", "d", ":", " ">> \o row["Study Area.1"]>>
    ELSE <<>>

\* create_job_text(row)
create_job_text(row) ==
    JoinWith(PartIfPresent(row, "Job Title Hiring", <<"J", "o", "b", " ", "t", "i", "t", "l", "e", ":", " ">>, <<>>)
             \o PartIfPresent(row, "Job Family Hiring", <<"D", "e", "p", "a", "r", "t", "m", "e", "n", "t", ":", " ">>, <<>>)
             \o PartIfPresent(row, "Recruitment Request", <<"R", "e", "c", "r", "u", "i", "t", "m", "e", "n", "t", " ", "c", "o", "n", "t", "e", "x", "t", ":", " ">>, <<>>)
             \o PartIfPresent(row, "Job Description", <<"J", "o", "b", " ", "d", "e", "s", "c", "r", "i", "p", "t", "i", "o", "n", ":", " ">>, <<>>)
             \o PartIfPresent(row, "Candidate Profile", <<"I", "d", "e", "a", "l", " ", "c", "a", "n", "d", "i", "d", "a", "t", "e", " ", "p", "r", "o", "f", "i", "l", "e", ":", " ">>, <<>>)
             \o JobStudyPart(row)
             \o PartIfPresent(row, "Years Experience.1", <<"R", "e", "q", "u", "i", "r", "e", "s", " ">>, <<" ", "y", "e", "a", "r", "s", " ", "o", "f", " ", "e", "x", "p", "e", "r", "i", "e", "n", "c", "e">>),
             <<".", " ">>) \o <<".">>

\* prepare_nlp_text_columns(df): a copy of df with the two text columns
prepare_nlp_text_columns(rows) ==
    [i \in 1..Len(rows) |->
        SetCol(SetCol(rows[i], "candidate_text", create_candidate_text(rows[i])),
               "job_text", create_job_text(rows[i]))]

\* st_model.encode(list) raises when the collaborator fails on a text of either column
NlpEncodeFails(rows, enc) ==
    \E i \in 1..Len(rows) :
        enc[rows[i]["candidate_text"]] = EncodeRaises \/ enc[rows[i]["job_text"]] = EncodeRaises

\* the body of the loop of calculate_nlp_similarity_st for one row
NlpRowScore(row, enc) ==
    IF row["candidate_text"] = <<>> \/ row["job_text"] = <<>> THEN Num(0)
    ELSE CosSim(enc[row["candidate_text"]], enc[row["job_text"]])

\* calculate_nlp_similarity_st(df_with_text, st_model); st_model None is
\* has_model = FALSE
calculate_nlp_similarity_st(rows, has_model, enc) ==
    IF ~has_model THEN [i \in 1..Len(rows) |-> NaN]
    ELSE IF NlpEncodeFails(rows, enc) THEN [i \in 1..Len(rows) |-> NaN]
    ELSE [i \in 1..Len(rows) |-> NlpRowScore(rows[i], enc)]

-----------------------------------------------------------------------------
(* Match features: geocoding and distance to the reference address *)

HQ_LOCATION_STR == <<"V", "i", "a", " ", "d", "e", "i", " ", "F", "o", "r", "n", "a", "r", "i", " ", "1", "2", ",", " ", "B", "o", "l", "o", "g", "n", "a", ",", " ", "I", "t", "a", "l", "y">>

\* None as the result of a lookup (no coordinates)
NoCoords == <<>>

\* what _geolocator.geocode(address) does: it returns a location with
\* coordinates <<latitude, longitude>>, returns None, or raises
GeocodeNone == <<0>>
GeocodeRaises == <<0, 0, 0>>

\* time.sleep() after a geocoder call, in tenths of a second
SleepAfterSuccess == 11
SleepAfterNoResult == 5
SleepAfterError == 11


\* get_coordinates_cached as it would be if a geocoder exception were not
\* recorded in the cache
get_coordinates_cached_ErrorNotCached(location_str, cache, log, geocoder) ==
    IF IsNa(location_str) \/ Strip(location_str) = <<>>
    THEN [coords |-> NoCoords, cache |-> cache, log |-> log]
    ELSE LET key == Strip(location_str)
         IN  IF key \in DOMAIN cache
             THEN [coords |-> cache[key], cache |-> cache, log |-> log]
             ELSE IF geocoder[key] = GeocodeRaises
             THEN [coords |-> NoCoords,
                   cache |-> cache,
                   log |-> Append(log, [address |-> key, outcome |-> "raise",
                                        sleep |-> SleepAfterError])]
             ELSE IF geocoder[key] = GeocodeNone
             THEN [coords |-> NoCoords,
                   cache |-> (key :> NoCoords) @@ cache,
                   log |-> Append(log, [address |-> key, outcome |-> "none",
                                        sleep |-> SleepAfterNoResult])]
             ELSE [coords |-> geocoder[key],
                   cache |-> (key :> geocoder[key]) @@ cache,
                   log |-> Append(log, [address |-> key, outcome |-> "coords",
                                        sleep |-> SleepAfterSuccess])]

\* get_coordinates_cached as it would be without the delay after a geocoder
\* exception
get_coordinates_cached_NoSleepOnError(location_str, cache, log, geocoder) ==
    IF IsNa(location_str) \/ Strip(location_str) = <<>>
    THEN [coords |-> NoCoords, cache |-> cache, log |-> log]
    ELSE LET key == Strip(location_str)
         IN  IF key \in DOMAIN cache
             THEN [coords |-> cache[key], cache |-> cache, log |-> log]
             ELSE IF geocoder[key] = GeocodeRaises
             THEN [coords |-> NoCoords,
                   cache |-> (key :> NoCoords) @@ cache,
                   log |-> Append(log, [address |-> key, outcome |-> "raise", sleep |-> 0])]
             ELSE IF geocoder[key] = GeocodeNone
             THEN [coords |-> NoCoords,
                   cache |-> (key :> NoCoords) @@ cache,
                   log |-> Append(log, [address |-> key, outcome |-> "none",
                                        sleep |-> SleepAfterNoResult])]
             ELSE [coords |-> geocoder[key],
                   cache |-> (key :> geocoder[key]) @@ cache,
                   log |-> Append(log, [address |-> key, outcome |-> "coords",
                                        sleep |-> SleepAfterSuccess])]

\* get_coordinates_cached as it would be if a successful call replaced the
\* cache by the new entry alone
get_coordinates_cached_ForgetOthers(location_str, cache, log, geocoder) ==
    IF IsNa(location_str) \/ Strip(location_str) = <<>>
    THEN [coords |-> NoCoords, cache |-> cache, log |-> log]
    ELSE LET key == Strip(location_str)
         IN  IF key \in DOMAIN cache
             THEN [coords |-> cache[key], cache |-> cache, log |-> log]
             ELSE IF geocoder[key] = GeocodeRaises
             THEN [coords |-> NoCoords,
                   cache |-> (key :> NoCoords) @@ cache,
                   log |-> Append(log, [address |-> key, outcome |-> "raise",
                                        sleep |-> SleepAfterError])]
             ELSE IF geocoder[key] = GeocodeNone
             THEN [coords |-> NoCoords,
                   cache |-> (key :> NoCoords) @@ cache,
                   log |-> Append(log, [address |-> key, outcome |-> "none",
                                        sleep |-> SleepAfterNoResult])]
             ELSE [coords |-> geocoder[key],
                   cache |-> (key :> geocoder[key]),
                   log |-> Append(log, [address |-> key, outcome |-> "coords",
                                        sleep |-> SleepAfterSuccess])]

\* get_coordinates_cached as it would be if a missing or blank address were
\* recorded in the cache as a failure
get_coordinates_cached_BlankCached(location_str, cache, log, geocoder) ==
    IF IsNa(location_str) \/ Strip(location_str) = <<>>
    THEN [coords |-> NoCoords, cache |-> (<<>> :> NoCoords) @@ cache, log |-> log]
    ELSE LET key == Strip(location_str)
         IN  IF key \in DOMAIN cache
             THEN [coords |-> cache[key], cache |-> cache, log |-> log]
             ELSE IF geocoder[key] = GeocodeRaises
             THEN [coords |-> NoCoords,
                   cache |-> (key :> NoCoords) @@ cache,
                   log |-> Append(log, [address |-> key, outcome |-> "raise",
                                        sleep |-> SleepAfterError])]
             ELSE IF geocoder[key] = GeocodeNone
             THEN [coords |-> NoCoords,
                   cache |-> (key :> NoCoords) @@ cache,
                   log |-> Append(log, [address |-> key, outcome |-> "none",
                                        sleep |-> SleepAfterNoResult])]
             ELSE [coords |-> geocoder[key],
                   cache |-> (key :> geocoder[key]) @@ cache,
                   log |-> Append(log, [address |-> key, outcome |-> "coords",
                                        sleep |-> SleepAfterSuccess])]

\* get_coordinates_cached(location_str) with the cache and the record of the
\* geocoder calls threaded through: the result, the cache and the record
\* after the call.  geocoder maps an address to what the collaborator does.
get_coordinates_cached(location_str, cache, log, geocoder) ==
    IF IsNa(location_str) \/ Strip(location_str) = <<>>
    THEN [coords |-> NoCoords, cache |-> cache, log |-> log]
    ELSE LET key == Strip(location_str)
         IN  IF key \in DOMAIN cache
             THEN [coords |-> cache[key], cache |-> cache, log |-> log]
             ELSE IF geocoder[key] = GeocodeRaises
             THEN [coords |-> NoCoords,
                   cache |-> (key :> NoCoords) @@ cache,
                   log |-> Append(log, [address |-> key, outcome |-> "raise",
                                        sleep |-> SleepAfterError])]
             ELSE IF geocoder[key] = GeocodeNone
             THEN [coords |-> NoCoords,
                   cache |-> (key :> NoCoords) @@ cache,
                   log |-> Append(log, [address |-> key, outcome |-> "none",
                                        sleep |-> SleepAfterNoResult])]
             ELSE [coords |-> geocoder[key],
                   cache |-> (key :> geocoder[key]) @@ cache,
                   log |-> Append(log, [address |-> key, outcome |-> "coords",
                                        sleep |-> SleepAfterSuccess])]

\* geodesic(a, b) raises ValueError for a latitude outside [-90, 90]
GeodesicRaises(a, b) == Abs(a[1]) > 90 \/ Abs(b[1]) > 90

\* geodesic(a, b).km between <<latitude, longitude>> pairs in degrees: the
\* length of the geodesic on the WGS-84 ellipsoid (the default of the distance
\* collaborator), tabulated to the metre for the coordinates of the model
GeodesicKm(a, b) ==
    LET metres ==
            CASE a = b -> 0
              [] {a, b} = {<<44, 11>>, <<41, 12>>} -> 343229
              [] {a, b} = {<<44, 11>>, <<60, 0>>} -> 1927912
              [] {a, b} = {<<44, 11>>, <<60, 3>>} -> 1859885
              [] {a, b} = {<<44, 11>>, <<62, 0>>} -> 2127996
              [] {a, b} = {<<41, 12>>, <<60, 0>>} -> 2270219
              [] {a, b} = {<<41, 12>>, <<60, 3>>} -> 2203113
              [] {a, b} = {<<41, 12>>, <<62, 0>>} -> 2471091
              [] {a, b} = {<<60, 0>>, <<60, 3>>} -> 167386
              [] {a, b} = {<<60, 0>>, <<62, 0>>} -> 222858
              [] {a, b} = {<<60, 3>>, <<62, 0>>} -> 275646
    IN  Rat(metres, 1000)

\* calculate_distance_to_hq(row_location_str, hq_coords), state threaded
calculate_distance_to_hq(row_location_str, hq, cache, log, geocoder) ==
    IF hq = NoCoords THEN [distance |-> NaN, cache |-> cache, log |-> log]
    ELSE LET r == get_coordinates_cached(row_location_str, cache, log, geocoder)
         IN  [distance |-> IF r.coords = NoCoords THEN NaN
                           ELSE IF GeodesicRaises(r.coords, hq) THEN NaN
                           ELSE GeodesicKm(r.coords, hq),
              cache |-> r.cache, log |-> r.log]

ResidenceColumns ==
    <<"Residence Italian City", "Residence Italian Province",
      "Residence Italian Region", "Residence Country">>

\* ", ".join of the trimmed residence fields that are present and not blank
RowAddress(row) ==
    JoinWith(NonEmptyStripped([k \in 1..Len(ResidenceColumns) |-> row[ResidenceColumns[k]]]),
             <<",", " ">>)

\* df.apply(calculate_distance_to_hq(...), axis=1) from row i on
RECURSIVE DistanceSeries(_, _, _, _, _, _)
DistanceSeries(rows, i, hq, cache, log, geocoder) ==
    IF i > Len(rows) THEN [distance |-> <<>>, cache |-> cache, log |-> log]
    ELSE LET r == calculate_distance_to_hq(RowAddress(rows[i]), hq, cache, log, geocoder)
             rest == DistanceSeries(rows, i + 1, hq, r.cache, r.log, geocoder)
         IN  [distance |-> <<r.distance>> \o rest.distance,
              cache |-> rest.cache, log |-> rest.log]

\* 1 / (x + 1) if x >= 0, 1.0 if x < 0, NaN if x is NaN
ProximityScore(x) ==
    IF IsNaN(x) THEN NaN
    ELSE IF RatLeq(Num(0), x) THEN RatDiv(Num(1), RatAdd(x, Num(1)))
    ELSE Num(1)

\* calculate_geo_features as it would be if the rows' addresses were looked
\* up before the check of the reference coordinates
calculate_geo_features_RowsLookedUpFirst(rows, hq, cache, log, geocoder) ==
    LET h == IF hq = NoCoords
             THEN get_coordinates_cached(HQ_LOCATION_STR, cache, log, geocoder)
             ELSE [coords |-> hq, cache |-> cache, log |-> log]
        d == DistanceSeries(rows, 1, IF h.coords = NoCoords THEN <<0, 0>> ELSE h.coords,
                            h.cache, h.log, geocoder)
    IN  IF h.coords = NoCoords
        THEN [distance |-> [i \in 1..Len(rows) |-> NaN],
              proximity |-> [i \in 1..Len(rows) |-> NaN],
              hq |-> h.coords, cache |-> d.cache, log |-> d.log]
        ELSE [distance |-> d.distance,
              proximity |-> [i \in 1..Len(rows) |-> ProximityScore(d.distance[i])],
              hq |-> h.coords, cache |-> d.cache, log |-> d.log]

\* calculate_geo_features(df): the two series, _hq_coords, the cache and the
\* record of geocoder calls after the call
calculate_geo_features(rows, hq, cache, log, geocoder) ==
    LET h == IF hq = NoCoords
             THEN get_coordinates_cached(HQ_LOCATION_STR, cache, log, geocoder)
             ELSE [coords |-> hq, cache |-> cache, log |-> log]
    IN  IF h.coords = NoCoords
        THEN [distance |-> [i \in 1..Len(rows) |-> NaN],
              proximity |-> [i \in 1..Len(rows) |-> NaN],
              hq |-> h.coords, cache |-> h.cache, log |-> h.log]
        ELSE LET d == DistanceSeries(rows, 1, h.coords, h.cache, h.log, geocoder)
             IN  [distance |-> d.distance,
                  proximity |-> [i \in 1..Len(rows) |-> ProximityScore(d.distance[i])],
                  hq |-> h.coords, cache |-> d.cache, log |-> d.log]

-----------------------------------------------------------------------------
(* Match features: parse_experience_string *)

Digits == <<"0", "1", "2", "3", "4", "5", "6", "7", "8", "9">>

IsDigit(c) == c \in Range(Digits)

\* int() of a non-empty run of digits, most significant first
RECURSIVE DigitsValue(_, _)
DigitsValue(s, acc) ==
    IF s = <<>> THEN acc
    ELSE DigitsValue(Tail(s), 10 * acc + IndexOrMinus1(Digits, Head(s)))

\* s.split(sep) for a one-character separator
RECURSIVE SplitFrom(_, _, _, _)
SplitFrom(s, sep, i, piece) ==
    IF i > Len(s) THEN <<piece>>
    ELSE IF s[i] = sep THEN <<piece>> \o SplitFrom(s, sep, i + 1, <<>>)
    ELSE SplitFrom(s, sep, i + 1, Append(piece, s[i]))

Split(s, sep) == SplitFrom(s, sep, 1, <<>>)

\* s.replace(c, '') for each character c of cs
RECURSIVE RemoveChars(_, _)
RemoveChars(s, cs) ==
    IF s = <<>> THEN <<>>
    ELSE (IF Head(s) \in cs THEN <<>> ELSE <<Head(s)>>) \o RemoveChars(Tail(s), cs)

\* the text float() converts, surrounding white space removed: float() skips
\* the white space str.strip() removes, except the four separators
\* U+001C..U+001F, which it leaves in the text
FloatText(s) ==
    LET kept == {i \in 1..Len(s) :
                    s[i] \notin Whitespace \ {"U+001C", "U+001D", "U+001E", "U+001F"}}
    IN  IF kept = {} THEN <<>>
        ELSE SubSeq(s, CHOOSE i \in kept : \A j \in kept : i <= j,
                       CHOOSE i \in kept : \A j \in kept : j <= i)

\* that text with one sign removed
FloatBody(s) ==
    LET t == FloatText(s)
    IN  IF t # <<>> /\ t[1] \in {"+", "-"} THEN Tail(t) ELSE t

\* float() reads the body as infinity or as nan, in any case of the letters
IsInfText(t) ==
    LowerFrom(t, 1) \in {<<"i", "n", "f">>, <<"i", "n", "f", "i", "n", "i", "t", "y">>}

IsNanText(t) == LowerFrom(t, 1) = <<"n", "a", "n">>

\* digits with single underscores allowed between two digits
IsDigitPart(t) ==
    /\ t # <<>>
    /\ IsDigit(t[1])
    /\ IsDigit(t[Len(t)])
    /\ \A i \in 1..Len(t) :
          IsDigit(t[i]) \/ (t[i] = "_" /\ IsDigit(t[i - 1]) /\ IsDigit(t[i + 1]))

\* position of the first character of t that is in cs, 0 if there is none
RECURSIVE FirstOf(_, _, _)
FirstOf(t, cs, i) ==
    IF i > Len(t) THEN 0
    ELSE IF t[i] \in cs THEN i
    ELSE FirstOf(t, cs, i + 1)

\* float() reads the body as a decimal number: digits, at most one decimal
\* point with digits on at least one side, then an optional exponent (the
\* letter e or E, an optional sign, digits)
IsNumberText(t) ==
    LET e == FirstOf(t, {"e", "E"}, 1)
        m == IF e = 0 THEN t ELSE SubSeq(t, 1, e - 1)
        x == SubSeq(t, e + 1, Len(t))
        xd == IF x # <<>> /\ x[1] \in {"+", "-"} THEN Tail(x) ELSE x
        dot == FirstOf(m, {"."}, 1)
        ip == IF dot = 0 THEN m ELSE SubSeq(m, 1, dot - 1)
        fp == IF dot = 0 THEN <<>> ELSE SubSeq(m, dot + 1, Len(m))
    IN  /\ ip = <<>> \/ IsDigitPart(ip)
        /\ fp = <<>> \/ IsDigitPart(fp)
        /\ ip # <<>> \/ fp # <<>>
        /\ e # 0 => IsDigitPart(xd)

\* float(s) raises ValueError
FloatRaises(s) ==
    ~(IsInfText(FloatBody(s)) \/ IsNanText(FloatBody(s)) \/ IsNumberText(FloatBody(s)))

RECURSIVE Pow10(_)
Pow10(n) == IF n = 0 THEN 1 ELSE 10 * Pow10(n - 1)

\* the value of a body float() reads as a decimal number
NumberValue(t) ==
    LET e == FirstOf(t, {"e", "E"}, 1)
        m == IF e = 0 THEN t ELSE SubSeq(t, 1, e - 1)
        x == IF e = 0 THEN <<"0">> ELSE SubSeq(t, e + 1, Len(t))
        dot == FirstOf(m, {"."}, 1)
        ip == RemoveChars(IF dot = 0 THEN m ELSE SubSeq(m, 1, dot - 1), {"_"})
        fp == RemoveChars(IF dot = 0 THEN <<>> ELSE SubSeq(m, dot + 1, Len(m)), {"_"})
        n == DigitsValue(RemoveChars(x, {"+", "-", "_"}), 0)
        mant == Rat(DigitsValue(ip \o fp, 0), Pow10(Len(fp)))
    IN  IF x[1] = "-" THEN Rat(mant[1], mant[2] * Pow10(n))
        ELSE Rat(mant[1] * Pow10(n), mant[2])

\* float(s), when it does not raise
FloatOf(s) ==
    LET t == FloatText(s)
        v == IF IsNanText(FloatBody(s)) THEN NaN
             ELSE IF IsInfText(FloatBody(s)) THEN Inf
             ELSE NumberValue(FloatBody(s))
    IN  IF t[1] = "-" THEN <<-v[1], v[2]>> ELSE v

\* what the try block appends to values for one part (brackets already
\* removed, part not empty): the list of the one value, or the empty list
\* when ValueError is raised and the part is ignored
PartValue(part) ==
    IF "-" \in Range(part) /\ part[1] # "+"
    THEN LET pieces == Split(part, "-")
         IN  IF Len(pieces) # 2 \/ FloatRaises(pieces[1]) \/ FloatRaises(pieces[2])
             THEN <<>>
             ELSE <<RatDiv(RatAdd(FloatOf(pieces[1]), FloatOf(pieces[2])), Num(2))>>
    ELSE IF part[1] = "+"
    THEN IF FloatRaises(RemoveChars(part, {"+"})) THEN <<>>
         ELSE <<FloatOf(RemoveChars(part, {"+"}))>>
    ELSE IF FloatRaises(part) THEN <<>> ELSE <<FloatOf(part)>>

\* the list values after the loop over the parts
RECURSIVE PartValues(_)
PartValues(parts) ==
    IF parts = <<>> THEN <<>>
    ELSE LET part == RemoveChars(Strip(Head(parts)), {"[", "]"})
         IN  (IF part = <<>> THEN <<>> ELSE PartValue(part)) \o PartValues(Tail(parts))

\* max(values) from position i on, cur being the greatest so far: an item
\* replaces it only when item > cur, which is False whenever either is nan
RECURSIVE MaxFrom(_, _, _)
MaxFrom(values, i, cur) ==
    IF i > Len(values) THEN cur
    ELSE MaxFrom(values, i + 1, IF RatLess(cur, values[i]) THEN values[i] ELSE cur)

\* parse_experience_string(exp_str) for a text or missing cell
parse_experience_string(exp_str) ==
    IF IsNa(exp_str) THEN NaN
    ELSE IF Strip(exp_str) = <<>> THEN NaN
    ELSE LET values == PartValues(Split(Strip(exp_str), "|"))
         IN  IF values = <<>> THEN NaN ELSE MaxFrom(values, 2, values[1])

\* parse_experience_string(exp_str) for a cell that is already a number
parse_experience_number(x) == x

-----------------------------------------------------------------------------
(* Match features: calculate_overall_score *)

\* the fixed maximum of the raw rating
RatingMax == 5

\* the columns of object dtype among those of the tables (the raw rating)
ObjectColumns == {"Overall"}

\* pd.to_numeric(x, errors='coerce') of one cell of an object column. The
\* parser reads the numbers float() reads, with three differences: it works
\* on the bytes of the text and skips ASCII white space only, so a character
\* outside ASCII anywhere in the cell fails; an underscore between digits is
\* not accepted; and infinity is recognised only when it is the whole cell,
\* so a padded 'inf' fails. What cannot be read becomes NaN.
ToNumeric(text) ==
    IF \/ IsNa(text)
       \/ Range(text) \cap (NonAscii \cup {"_"}) # {}
       \/ FloatRaises(text)
       \/ IsInfText(FloatBody(text)) /\ FloatText(text) # text
    THEN NaN
    ELSE FloatOf(text)

\* df.columns (every row of a table has the same columns)
ColumnsOf(rows) == DOMAIN rows[1]

\* df_temp with 'Overall_scaled' derived from 'Overall', or added as an
\* all-NaN column, when it is requested and not present
RECURSIVE WithOverallScaled(_, _, _)
WithOverallScaled(rows, score_columns, k) ==
    IF k > Len(rows) THEN <<>>
    ELSE LET row == rows[k]
             requested == "Overall_scaled" \in Range(score_columns)
                              /\ "Overall_scaled" \notin DOMAIN row
             new == IF "Overall" \in DOMAIN row /\ requested
                    THEN SetCol(row, "Overall_scaled",
                                RatDiv(ToNumeric(row["Overall"]), Num(RatingMax)))
                    ELSE IF requested THEN SetCol(row, "Overall_scaled", NaN)
                    ELSE row
         IN  <<new>> \o WithOverallScaled(rows, score_columns, k + 1)

\* actual_score_cols = [col for col in score_columns if col in df_temp.columns]
RECURSIVE actual_score_cols(_, _)
actual_score_cols(score_columns, columns) ==
    IF score_columns = <<>> THEN <<>>
    ELSE (IF Head(score_columns) \in columns THEN <<Head(score_columns)>> ELSE <<>>)
             \o actual_score_cols(Tail(score_columns), columns)

\* the cell as a number: object columns go through pd.to_numeric
NumericCell(row, col) ==
    IF col \in ObjectColumns THEN ToNumeric(row[col]) ELSE row[col]

RECURSIVE SumPresent(_)
SumPresent(xs) ==
    IF xs = <<>> THEN Num(0)
    ELSE IF IsNaN(Head(xs)) THEN SumPresent(Tail(xs))
    ELSE RatAdd(Head(xs), SumPresent(Tail(xs)))

RECURSIVE CountPresent(_)
CountPresent(xs) ==
    IF xs = <<>> THEN 0
    ELSE (IF IsNaN(Head(xs)) THEN 0 ELSE 1) + CountPresent(Tail(xs))

\* the mean of one row as it would be with a missing value counted as zero
RowMeanNaNAsZero(xs) ==
    RatDiv(SumPresent(xs), Num(Len(xs)))

\* one row of DataFrame.mean(axis=1): NaN skipped, NaN when nothing is left
RowMean(xs) ==
    IF CountPresent(xs) = 0 THEN NaN
    ELSE RatDiv(SumPresent(xs), Num(CountPresent(xs)))

\* calculate_overall_score(df, score_columns)
calculate_overall_score(rows, score_columns) ==
    LET df_temp == WithOverallScaled(rows, score_columns, 1)
        cols == actual_score_cols(score_columns, ColumnsOf(df_temp))
    IN  IF cols = <<>> THEN [i \in 1..Len(rows) |-> NaN]
        ELSE [i \in 1..Len(rows) |->
                 RowMean([k \in 1..Len(cols) |-> NumericCell(df_temp[i], cols[k])])]

-----------------------------------------------------------------------------
(* Inputs of the Reconciler runs *)

RecIds == {<<"A">>, <<"A", "_", "1">>, <<"B">>}
Inv1Values == {<<"x">>, <<"y">>, NA}
Inv2Values == {<<"p">>, NA}

\* the rows of the input tables: every identifier with every combination of
\* invariant values, and rows without identifier (ID missing) with every
\* value of inv1
RecRowSet ==
    {[c \in {"ID", "inv1", "inv2"} |->
        CASE c = "ID" -> id [] c = "inv1" -> a [] OTHER -> b] :
        id \in RecIds, a \in Inv1Values, b \in Inv2Values}
    \cup
    {[c \in {"ID", "inv1", "inv2"} |->
        CASE c = "ID" -> NA [] c = "inv1" -> a [] OTHER -> <<"p">>] : a \in Inv1Values}

\* the non-empty tables of at most n rows drawn from rowSet
TablesOf(rowSet, n) == UNION {[1..k -> rowSet] : k \in 1..n}

InvChoices == {None, <<>>, <<"inv1">>, <<"inv1", "inv2">>}

-----------------------------------------------------------------------------
(* Inputs of clean_dataframe_columns *)

ColumnNames ==
    {<<"I", "D">>, <<" ", "I", "D", " ">>,
     <<"C", "a", "n", "d", "i", "d", "a", "t", "e", " ", "S", "t", "a", "t", "e", " ">>,
     <<"S", "U+00E9", "c", "t", "o", "r">>, <<"I", "D", " ", "U+00E9">>,
     <<"U+00A0", "I", "D", "\t">>, <<"\f", "I", "D", "U+3000">>}

-----------------------------------------------------------------------------
(* Inputs of the filter runs *)

interview == <<"i", "n", "t", "e", "r", "v", "i", "e", "w">>
rejected == <<"r", "e", "j", "e", "c", "t", "e", "d">>

FilterIds == {<<"A">>, <<"B">>}
StateValues ==
    {<<"H", "i", "r", "e", "d", " ">>,
     <<" ", "I", "n", " ", "S", "e", "l", "e", "c", "t", "i", "o", "n">>}
EventValues ==
    {<<"E", "c", "o", "n", "o", "m", "i", "c", " ", "P", "r", "o", "p", "o", "s", "a", "l", " ">>,
     interview}
FeedbackValues == {rejected \o <<" ">>, NA}
SectorValues == {<<"I", "T">>, NA}

FilterRowSet ==
    {[c \in {"ID", "Candidate State", "event_type__val", "event_feedback", "Sector"} |->
        CASE c = "ID" -> id
          [] c = "Candidate State" -> st
          [] c = "event_type__val" -> ev
          [] c = "event_feedback" -> fb
          [] OTHER -> sec] :
        id \in FilterIds, st \in StateValues, ev \in EventValues,
        fb \in FeedbackValues, sec \in SectorValues}

\* the dtypes the column event_feedback of a table can have: object, and
\* float64 as well when every cell is missing (what pandas infers for it)
FeedbackDtypes(rows) ==
    IF \A i \in 1..Len(rows) : IsNa(rows[i]["event_feedback"])
    THEN {"object", "float64"} ELSE {"object"}

StateOrders ==
    {<<in_selection, hired>>, <<hired, in_selection>>, <<in_selection>>,
     <<in_selection, hired, interview>>}
EventOrders == {<<interview, economic_proposal>>, <<economic_proposal, interview>>}
FeedbackLists == {<<rejected>>, <<>>}

-----------------------------------------------------------------------------
(* Inputs of the feature runs *)

Doctorate == ordered_levels[7]
ThreeYearDegree == ordered_levels[4]

StudyTitleRowSet ==
    {("Study Title" :> a) @@ ("Study Level" :> b) :
        a \in {Doctorate, ThreeYearDegree, ordered_levels[6],
                <<"M", "a", "s", "t", "e", "r", "'", "s", " ", "d", "e", "g", "r", "e", "e">>, NA},
        b \in {ThreeYearDegree, ordered_levels[6], NA}}

ExperienceRowSet ==
    {("Years Experience_int" :> a) @@ ("Years Experience.1_int" :> b) :
        a \in {Num(0), Num(2), Num(5), NaN}, b \in {Num(2), Num(5), NaN}}

SalaryRowSet ==
    {("Expected Ral" :> a) @@ ("Current Ral" :> a) @@ ("Minimum Ral" :> b) @@ ("Ral Maximum" :> c) :
        a \in {Num(10), Num(20), Num(25), Num(30), Num(40), NaN},
        b \in {Num(20), NaN}, c \in {Num(30), Num(20)}}

StudyAreaRowSet ==
    {("Study area" :> a) @@ ("Study Area.1" :> b) :
        a \in {<<"I", "T">>, <<"L", "a", "w">>, NA}, b \in {<<"I", "T">>, NA}}

ProfessionalRowSet ==
    {("Sector" :> a) @@ ("Last Role" :> b) @@ ("Job Family Hiring" :> NA) @@ ("Job Title Hiring" :> c) :
        a \in {<<"I", "T", " ">>, NA}, b \in {<<"D", "e", "v">>, <<" ">>}, c \in {<<"D", "e", "v">>, NA}}

TextRowSet ==
    {("candidate_text" :> a) @@ ("job_text" :> b) :
        a \in {<<"a", ".">>, <<>>}, b \in {<<"a", ".">>, <<"b", ".">>, <<>>}}

\* a row of the raw table with every field of the two texts missing
BlankNlpRow ==
    [c \in {"Study Title", "Study area", "Sector", "Last Role", "Years Experience", "TAG",
            "Job Title Hiring", "Job Family Hiring", "Recruitment Request",
            "Job Description", "Candidate Profile", "Study Level", "Study Area.1",
            "Years Experience.1"} |-> NA]

NlpRowSet ==
    {BlankNlpRow,
     ("Study Title" :> Doctorate) @@ ("Sector" :> <<"I", "T">>) @@ ("Job Title Hiring" :> <<"D", "e", "v">>)
        @@ BlankNlpRow,
     ("Study area" :> <<"I", "T">>) @@ ("Study Level" :> Doctorate) @@ ("Study Area.1" :> <<"I", "T">>)
        @@ BlankNlpRow}

BlankGeoRow == [k \in Range(ResidenceColumns) |-> NA]

GeoRowSet ==
    {BlankGeoRow,
     ("Residence Italian City" :> <<"R", "o", "m", "e", " ">>) @@ BlankGeoRow,
     ("Residence Italian City" :> <<" ", "R", "o", "m", "e">>)
        @@ ("Residence Italian Province" :> <<" ">>)
        @@ ("Residence Country" :> <<"I", "T">>) @@ BlankGeoRow}

\* what the geocoder may do with an address
GeocodeOutcomes == {<<44, 11>>, <<41, 12>>, GeocodeNone, GeocodeRaises}

LookupArguments == {NA, <<" ">>, <<" ", "R", "o", "m", "e">>, <<"R", "o", "m", "e", " ">>, HQ_LOCATION_STR}

ExperienceStrings ==
    {NA, <<>>, <<" ">>, <<"[", "0", "-", "1", "]">>, <<"[", "+", "1", "0", "]">>, <<"[", "3", "-", "5", "]", " ", "|", " ", "[", "1", "-", "3", "]">>, <<"7">>, <<"x">>,
     <<"-", "5">>, <<"1", "-", "2", "-", "3">>, <<"[", "1", "-", "x", "]", " ", "|", " ", "4">>, <<"+", "1", "-", "3">>,
     <<"n", "a", "n", " ", "|", " ", "1">>, <<"1", " ", "|", " ", "n", "a", "n">>, <<"i", "n", "f">>,
     <<"[", "1", "e", "1", "-", "3", "0", "]">>, <<"1", "_", "0">>, <<"2", ".", "5">>}

ExperienceStringRowSet == {("Years Experience" :> s) : s \in ExperienceStrings}


\* tables for calculate_overall_score: two feature scores; one score and the
\* raw rating; one score, the raw rating and its scaled form; the raw rating
\* alone
ScoreValues == {Num(1), <<1, 2>>, NaN}

RatingValues ==
    {<<"4">>, <<"1", "e", "1">>, <<"U+00A0", "4">>, <<"h", "i", "g", "h">>, NA}

OverallRowSets ==
    { {("Salary_Fit_Score" :> a) @@ ("Study_Title_Score" :> b) :
           a \in ScoreValues, b \in ScoreValues},
      {("Salary_Fit_Score" :> a) @@ ("Overall" :> r) :
           a \in ScoreValues, r \in RatingValues},
      {("Salary_Fit_Score" :> a) @@ ("Overall" :> r) @@ ("Overall_scaled" :> s) :
           a \in ScoreValues, r \in RatingValues, s \in {<<3, 5>>, NaN}},
      {("Overall" :> r) : r \in RatingValues} }

OverallTables == UNION {TablesOf(rowSet, MaxFeatureRows) : rowSet \in OverallRowSets}

ScoreColumnLists ==
    {<<>>, <<"Salary_Fit_Score">>, <<"Salary_Fit_Score", "Study_Title_Score">>,
     <<"Salary_Fit_Score", "Salary_Fit_Score", "Study_Title_Score">>,
     <<"Salary_Fit_Score", "Overall_scaled">>, <<"Overall_scaled">>,
     <<"Overall", "Salary_Fit_Score">>,
     <<"Distance_Score">>, <<"Salary_Fit_Score", "Distance_Score">>}

-----------------------------------------------------------------------------
(* Calls *)

NoParams ==
    [invariant_columns |-> None, state_order |-> None,
     event_order |-> None, feedbacks_to_remove |-> None]

\* the bookkeeping of one call on the table the caller holds; an exception
\* ends the run
CallFrame(name, p) ==
    /\ raised = ""
    /\ calls' = calls + 1
    /\ arg' = table
    /\ op' = name
    /\ params' = p
    /\ prevOp' = op
    /\ prevParams' = params
    /\ UNCHANGED <<feedback_dtype, featureVars, pipeVars>>

\* df = split_duplicate_ids_by_invariant_columns(df, inv)
Reconcile ==
    \E inv \in InvChoices :
        /\ calls < MaxCalls
        /\ CallFrame("reconcile", [NoParams EXCEPT !.invariant_columns = inv])
        /\ raised' = ReconcileError(table, inv)
        /\ argAfter' = ReconcileArgAfter(table, inv)
        /\ ret' = IF raised' = "" THEN ReconcileRows(table, inv) ELSE <<>>
        /\ table' = IF raised' = "" THEN ret' ELSE argAfter'

\* df = remove_initial_stage_candidates(df)
EarlyStage ==
    /\ op = "none"
    /\ CallFrame("early", NoParams)
    /\ raised' = ""
    /\ argAfter' = EarlyArgAfter(table)
    /\ ret' = WithoutIds(argAfter', InitialStageIdsToDrop(argAfter'))
    /\ table' = ret'

\* df = remove_not_hired_valid_candidates(df, so, eo, fb)
Outcome ==
    /\ op = "none"
    /\ \E so \in StateOrders, eo \in EventOrders, fb \in FeedbackLists :
        /\ CallFrame("outcome", [NoParams EXCEPT !.state_order = so,
                                     !.event_order = eo, !.feedbacks_to_remove = fb])
        /\ raised' = OutcomeError(feedback_dtype)
        /\ argAfter' = IF raised' = "" THEN OutcomeArgAfter(table)
                       ELSE OutcomeArgAfterRaise(table)
        /\ ret' = IF raised' = "" THEN RemoveNotHired(argAfter', so, eo, fb) ELSE <<>>
        /\ table' = IF raised' = "" THEN ret' ELSE argAfter'

InitCall ==
    /\ arg = <<>>
    /\ argAfter = <<>>
    /\ ret = <<>>
    /\ raised = ""
    /\ op = "none"
    /\ params = NoParams
    /\ prevOp = "none"
    /\ prevParams = NoParams
    /\ calls = 0

\* no feature function has been called, the geocoding cache is empty
InitFeatureIdle ==
    /\ fop = "none"
    /\ fin = <<>>
    /\ fret = <<>>
    /\ fraised = ""
    /\ fflag = TRUE
    /\ encoder = <<>>
    /\ fcalls = 0
    /\ geocoding_cache = <<>>
    /\ hq_coords = NoCoords
    /\ geoLog = <<>>

\* no run of the two passes in sequence has begun
InitPipeIdle ==
    /\ early_first = <<>>
    /\ outcome_first = <<>>
    /\ pipe_step = 0
    /\ run_raised = <<"", "">>

InitReconcile ==
    /\ table \in TablesOf(RecRowSet, MaxRows)
    /\ feedback_dtype = "object"
    /\ InitCall
    /\ InitFeatureIdle
    /\ InitPipeIdle

NextReconcile == Reconcile

\* repeated reconciliation of bounded tables
SpecReconcile == InitReconcile /\ [][NextReconcile]_vars

InitFilter ==
    /\ table \in TablesOf(FilterRowSet, MaxFilterRows)
    /\ feedback_dtype \in FeedbackDtypes(table)
    /\ InitCall
    /\ InitFeatureIdle
    /\ InitPipeIdle

NextFilter == EarlyStage \/ Outcome

\* one filter pass on bounded tables
SpecFilter == InitFilter /\ [][NextFilter]_vars

-----------------------------------------------------------------------------
(* The two filter passes in sequence, in either order, on one table *)

\* the parameters of the outcome pass in these runs
PipelineParams ==
    {[NoParams EXCEPT !.state_order = so, !.event_order = <<interview, economic_proposal>>,
                      !.feedbacks_to_remove = fb] :
        so \in {<<in_selection, hired>>, <<in_selection, hired, interview>>},
        fb \in FeedbackLists}

\* the frame of one pass of the two runs: both runs are given the caller's
\* table df, which the passes called on it change in place
PipeFrame(step) ==
    /\ pipe_step = step
    /\ pipe_step' = step + 1
    /\ UNCHANGED <<arg, argAfter, ret, raised, op, params, prevOp, prevParams, calls,
                   feedback_dtype, featureVars>>

\* first run: df1 = remove_initial_stage_candidates(df)
FirstRunEarly ==
    /\ PipeFrame(0)
    /\ table' = EarlyArgAfter(table)
    /\ early_first' = EarlyRows(table)
    /\ UNCHANGED <<outcome_first, run_raised>>

\* first run: df1 = remove_not_hired_valid_candidates(df1, so, eo, fb); when
\* the call raises df1 stays bound to the table it was given
FirstRunOutcome ==
    /\ PipeFrame(1)
    /\ run_raised' = <<OutcomeError(feedback_dtype), run_raised[2]>>
    /\ early_first' = IF run_raised'[1] = ""
                      THEN OutcomeRows(early_first, params.state_order, params.event_order,
                                       params.feedbacks_to_remove)
                      ELSE OutcomeArgAfterRaise(early_first)
    /\ UNCHANGED <<table, outcome_first>>

\* second run: df2 = remove_not_hired_valid_candidates(df, so, eo, fb), on the
\* table df as the first run left it; when the call raises df2 is not bound
SecondRunOutcome ==
    /\ PipeFrame(2)
    /\ run_raised' = <<run_raised[1], OutcomeError(feedback_dtype)>>
    /\ table' = IF run_raised'[2] = "" THEN OutcomeArgAfter(table)
                ELSE OutcomeArgAfterRaise(table)
    /\ outcome_first' = IF run_raised'[2] = ""
                        THEN RemoveNotHired(table', params.state_order, params.event_order,
                                            params.feedbacks_to_remove)
                        ELSE <<>>
    /\ UNCHANGED early_first

\* second run: df2 = remove_initial_stage_candidates(df2), not reached when
\* the outcome pass raised
SecondRunEarly ==
    /\ PipeFrame(3)
    /\ run_raised[2] = ""
    /\ outcome_first' = EarlyRows(outcome_first)
    /\ UNCHANGED <<table, early_first, run_raised>>

InitPipeline ==
    /\ table \in TablesOf(FilterRowSet, MaxPipelineRows)
    /\ feedback_dtype \in FeedbackDtypes(table)
    /\ arg = <<>>
    /\ argAfter = <<>>
    /\ ret = <<>>
    /\ raised = ""
    /\ op = "none"
    /\ params \in PipelineParams
    /\ prevOp = "none"
    /\ prevParams = NoParams
    /\ calls = 0
    /\ InitFeatureIdle
    /\ InitPipeIdle

NextPipeline == FirstRunEarly \/ FirstRunOutcome \/ SecondRunOutcome \/ SecondRunEarly

\* both orders of the two passes, one run after the other on one bounded table
SpecPipeline == InitPipeline /\ [][NextPipeline]_vars

-----------------------------------------------------------------------------
(* Feature calls *)

\* the geocoding state is left as it is
GeoUnchanged == UNCHANGED <<geocoding_cache, hq_coords, geoLog>>

\* no feature function has been called yet in this run
FreshRun == fop = "none"

\* the bookkeeping of a call of a stateless feature function on a fresh table
FeatureFrame(name, tbl, flag, enc) ==
    /\ fop' = name
    /\ fin' = tbl
    /\ fflag' = flag
    /\ encoder' = enc
    /\ fcalls' = fcalls + 1
    /\ GeoUnchanged
    /\ UNCHANGED <<cleanVars, pipeVars>>

\* clean_dataframe_columns(df): fin is df.columns before the call, fret is
\* df.columns after it
CleanColumns ==
    /\ FreshRun
    /\ \E columns \in TablesOf(ColumnNames, MaxFeatureRows) :
           /\ FeatureFrame("clean_columns", columns, TRUE, <<>>)
           /\ fraised' = ""
           /\ fret' = clean_dataframe_columns(columns)

\* calculate_study_title_score(df)
StudyTitle ==
    /\ FreshRun
    /\ \E tbl \in TablesOf(StudyTitleRowSet, MaxFeatureRows) :
           /\ FeatureFrame("study_title", tbl, TRUE, <<>>)
           /\ fraised' = ""
           /\ fret' = calculate_study_title_score(tbl)

\* calculate_experience_match_score(df)
ExperienceMatch ==
    /\ FreshRun
    /\ \E tbl \in TablesOf(ExperienceRowSet, MaxFeatureRows) :
           /\ FeatureFrame("experience", tbl, TRUE, <<>>)
           /\ fraised' = ""
           /\ fret' = calculate_experience_match_score(tbl)

\* calculate_salary_fit_score(df, is_expected)
SalaryFit ==
    /\ FreshRun
    /\ \E tbl \in TablesOf(SalaryRowSet, MaxFeatureRows), is_expected \in BOOLEAN :
           /\ FeatureFrame("salary", tbl, is_expected, <<>>)
           /\ fraised' = ""
           /\ fret' = calculate_salary_fit_score(tbl, is_expected)

\* calculate_study_area_score(df)
StudyArea ==
    /\ FreshRun
    /\ \E tbl \in TablesOf(StudyAreaRowSet, MaxFeatureRows) :
           \E enc \in [AllStudyAreas(tbl) -> EncodeOutcomes] :
               /\ FeatureFrame("study_area", tbl, TRUE, enc)
               /\ fraised' = StudyAreaError(tbl, enc)
               /\ fret' = IF fraised' = "" THEN calculate_study_area_score(tbl, enc) ELSE <<>>

\* calculate_professional_similarity_score(df)
Professional ==
    /\ FreshRun
    /\ \E tbl \in TablesOf(ProfessionalRowSet, MaxFeatureRows) :
           \E enc \in [ProfEncodedTexts(tbl) -> EncodeOutcomes] :
               /\ FeatureFrame("professional", tbl, TRUE, enc)
               /\ fraised' = ProfessionalError(tbl, enc)
               /\ fret' = IF fraised' = "" THEN calculate_professional_similarity_score(tbl, enc)
                          ELSE <<>>

\* the texts of the two text columns of a table
TextsOf(tbl) ==
    Range(Column(tbl, "candidate_text")) \cup Range(Column(tbl, "job_text"))

\* calculate_nlp_similarity_st(df_with_text, st_model) on a table that has
\* the two text columns
NlpSt ==
    /\ FreshRun
    /\ \E tbl \in TablesOf(TextRowSet, MaxFeatureRows), has_model \in BOOLEAN :
           \E enc \in [TextsOf(tbl) -> EncodeOutcomes] :
               /\ FeatureFrame("nlp_st", tbl, has_model, enc)
               /\ fraised' = ""
               /\ fret' = calculate_nlp_similarity_st(tbl, has_model, enc)

\* calculate_nlp_similarity_st(prepare_nlp_text_columns(df), st_model)
NlpStPrepared ==
    /\ FreshRun
    /\ \E tbl \in TablesOf(NlpRowSet, MaxFeatureRows) :
           \E enc \in [TextsOf(prepare_nlp_text_columns(tbl)) -> EncodeOutcomes] :
               /\ FeatureFrame("nlp_st_prepared", prepare_nlp_text_columns(tbl), TRUE, enc)
               /\ fraised' = ""
               /\ fret' = calculate_nlp_similarity_st(fin', TRUE, enc)

\* df['Years Experience'].apply(parse_experience_string)
ParseExperience ==
    /\ FreshRun
    /\ \E tbl \in TablesOf(ExperienceStringRowSet, MaxFeatureRows) :
           /\ FeatureFrame("parse_experience", tbl, TRUE, <<>>)
           /\ fraised' = ""
           /\ fret' = [i \in 1..Len(tbl) |-> parse_experience_string(tbl[i]["Years Experience"])]


\* calculate_overall_score(df, score_columns); the list of columns is kept
\* in fflag
OverallScore ==
    /\ FreshRun
    /\ \E tbl \in OverallTables, score_columns \in ScoreColumnLists :
           /\ FeatureFrame("overall", tbl, score_columns, <<>>)
           /\ fraised' = ""
           /\ fret' = calculate_overall_score(tbl, score_columns)

\* calls that use the geocoding state follow one another in one process
GeoRun == fop \in {"none", "geo", "lookup"} /\ fcalls < MaxGeoCalls

\* the bookkeeping of a call that uses the geocoding state
GeoFrame(name, input, geocoder) ==
    /\ fcalls' = fcalls + 1
    /\ fop' = name
    /\ fin' = input
    /\ fflag' = TRUE
    /\ encoder' = <<>>
    /\ fraised' = ""
    /\ UNCHANGED <<cleanVars, pipeVars>>

\* the addresses a call may send to the geocoder
AddressesToGeocode(addresses) ==
    {Strip(a) : a \in {x \in addresses : ~IsNa(x)}} \ ({<<>>} \cup DOMAIN geocoding_cache)

\* calculate_geo_features(df)
GeoFeatures ==
    /\ GeoRun
    /\ \E tbl \in TablesOf(GeoRowSet, MaxFeatureRows) :
           \E geocoder \in [AddressesToGeocode({RowAddress(tbl[i]) : i \in 1..Len(tbl)}
                                               \cup {HQ_LOCATION_STR}) -> GeocodeOutcomes] :
               LET r == calculate_geo_features(tbl, hq_coords, geocoding_cache, geoLog, geocoder)
               IN  /\ GeoFrame("geo", tbl, geocoder)
                   /\ fret' = <<r.distance, r.proximity>>
                   /\ hq_coords' = r.hq
                   /\ geocoding_cache' = r.cache
                   /\ geoLog' = r.log

\* get_coordinates_cached(location_str)
Lookup ==
    /\ GeoRun
    /\ \E location_str \in LookupArguments :
           \E geocoder \in [AddressesToGeocode({location_str}) -> GeocodeOutcomes] :
               LET r == get_coordinates_cached(location_str, geocoding_cache, geoLog, geocoder)
               IN  /\ GeoFrame("lookup", <<location_str>>, geocoder)
                   /\ fret' = <<r.coords>>
                   /\ hq_coords' = hq_coords
                   /\ geocoding_cache' = r.cache
                   /\ geoLog' = r.log

InitFeature ==
    /\ table = <<>>
    /\ feedback_dtype = "object"
    /\ InitCall
    /\ InitFeatureIdle
    /\ InitPipeIdle

\* the stateless functions only
NextScores ==
    \/ CleanColumns
    \/ StudyTitle
    \/ ExperienceMatch
    \/ SalaryFit
    \/ NlpSt
    \/ NlpStPrepared
    \/ StudyArea
    \/ Professional
    \/ ParseExperience
    \/ OverallScore

SpecScores == InitFeature /\ [][NextScores]_vars

\* the functions that use the geocoding state only
NextGeo == GeoFeatures \/ Lookup

SpecGeo == InitFeature /\ [][NextGeo]_vars

NextFeature ==
    \/ CleanColumns
    \/ StudyTitle
    \/ ExperienceMatch
    \/ SalaryFit
    \/ NlpSt
    \/ NlpStPrepared
    \/ StudyArea
    \/ Professional
    \/ ParseExperience
    \/ OverallScore
    \/ GeoFeatures
    \/ Lookup

\* feature functions applied to bounded tables; geocoding calls in sequence
SpecFeature == InitFeature /\ [][NextFeature]_vars

-----------------------------------------------------------------------------
(* Claims about the Reconciler (SpecReconcile) *)

ReconcileReturned == op = "reconcile" /\ raised = ""

InvOfCall == params.invariant_columns

\* the rows of a table without their ID
StripId(rows) == [i \in 1..Len(rows) |-> DropCols(rows[i], {"ID"})]

\* number of occurrences of x in the sequence s
Count(s, x) == Cardinality({i \in 1..Len(s) : s[i] = x})

\* the rows of the argument that have an identifier
Identified == {i \in 1..Len(arg) : ~IsNa(arg[i]["ID"])}

\* the place, in the returned table, of row i of the argument (i in
\* Identified): the returned rows are the identified rows in input order
RetRow(i) == Cardinality({j \in Identified : j <= i})

\* the identifier row i of the argument has in the returned table
RetId(i) == ret[RetRow(i)]["ID"]

\* some identifier of the argument was rewritten
SomeIdRewritten == \E i \in Identified : RetId(i) # arg[i]["ID"]

\* C1: after the Reconciler returns (invariant columns non-empty), any two
\* output rows with the same ID have the same value, missing equal to missing,
\* in every invariant column.
C1_SameIdSameInvariants ==
    (ReconcileReturned /\ InvOfCall # <<>>) =>
        \A i, j \in 1..Len(ret) :
            ret[i]["ID"] = ret[j]["ID"] =>
                \A k \in 1..Len(InvOfCall) : ret[i][InvOfCall[k]] = ret[j][InvOfCall[k]]

\* C2: a second run of the Reconciler, with the same invariant columns, on the
\* output of the first returns its argument unchanged.
C2_ReconcileIdempotent ==
    (ReconcileReturned /\ prevOp = "reconcile" /\ prevParams = params) => ret = arg

\* C3: the Reconciler returns as many rows as it was given, and the returned
\* rows are, ID apart, the given rows, each as many times as it was given.
C3_RowsConserved ==
    ReconcileReturned =>
        /\ Len(ret) = Len(arg)
        /\ \A i \in 1..Len(arg) :
              Count(StripId(ret), StripId(arg)[i]) = Count(StripId(arg), StripId(arg)[i])

\* C7: a call of the Reconciler with invariant_columns None or empty raises,
\* whatever the table.
C7_EmptyInvariantColumnsRaise ==
    (op = "reconcile" /\ InvOfCall \in {None, <<>>}) => raised # ""

-----------------------------------------------------------------------------
(* Claims about the filter passes (SpecFilter) *)

\* the state of a row as the passes read it
NormState(row) == Lower(Strip(row["Candidate State"]))

\* number of rows of the identifier in a table
RowsWithId(rows, id) == Cardinality(GroupOf(rows, "ID", id))

\* the last call was the outcome pass and it returned a table
OutcomeReturned == op = "outcome" /\ raised = ""

\* the identifier is in the argument and not in the returned table
Removed(id) == id \in IdsOf(arg) /\ id \notin IdsOf(ret)

\* C4: an identifier with at least one row whose normalized state is "hired"
\* is never removed by the outcome pass.
C4_HiredNeverRemoved ==
    OutcomeReturned =>
        \A id \in IdsOf(arg) :
            (\E i \in GroupOf(arg, "ID", id) : NormState(arg[i]) = hired) => ~Removed(id)

\* the terminal row of an identifier: the last row of its sorted group, read
\* from the argument with state and event type trimmed and lower-cased and
\* feedback trimmed
TerminalRow(id) ==
    LET norm == OutcomeArgAfter(arg)
        grp == GroupOf(norm, "ID", id)
        sorted == SortGroup(norm, grp, params.state_order, params.event_order)
    IN  norm[sorted[Len(sorted)]]

\* C5: the outcome pass removes an identifier exactly when its terminal row is
\* not hired and either its trimmed feedback is in feedbacks_to_remove or its
\* trimmed, lower-cased event type is "economic proposal" or "candidate
\* notification"; nothing else enters the decision.
C5_RemovedIffTerminalRule ==
    OutcomeReturned =>
        \A id \in IdsOf(arg) :
            Removed(id) <=>
                LET last == TerminalRow(id)
                IN  /\ last["Candidate State"] # hired
                    /\ \/ last["event_feedback"] \in Range(params.feedbacks_to_remove)
                       \/ last["event_type__val"] \in {economic_proposal, candidate_notification}

\* C5 witness: an identifier of two rows, one of them hired, is removed on
\* the feedback of its terminal row, whose event type is no removal event
C5_Witness ==
    /\ OutcomeReturned
    /\ \E id \in IdsOf(arg) :
          /\ Removed(id)
          /\ RowsWithId(arg, id) = 2
          /\ \E i \in GroupOf(arg, "ID", id) : NormState(arg[i]) = hired
          /\ TerminalRow(id)["event_type__val"] = interview
          /\ TerminalRow(id)["event_feedback"] = rejected

\* C6: the early-stage pass removes an identifier exactly when it has one row,
\* that row's state, trimmed and lower-cased, is imported, first contact or in
\* selection, and that row's Sector is missing; every other identifier keeps
\* all of its rows.
C6_EarlyStageRule ==
    op = "early" =>
        \A id \in IdsOf(arg) :
            /\ Removed(id) <=>
                  /\ RowsWithId(arg, id) = 1
                  /\ \A i \in GroupOf(arg, "ID", id) :
                        /\ NormState(arg[i]) \in {imported, first_contact, in_selection}
                        /\ IsNa(arg[i]["Sector"])
            /\ ~Removed(id) => RowsWithId(ret, id) = RowsWithId(arg, id)

\* C6 witness: a single-row early-stage identifier without Sector is removed
\* while a single-row early-stage identifier with a Sector is kept
C6_Witness ==
    /\ op = "early"
    /\ \E id \in IdsOf(arg) : Removed(id)
    /\ \E id \in IdsOf(arg) :
          /\ ~Removed(id)
          /\ \A i \in GroupOf(arg, "ID", id) :
                NormState(arg[i]) = in_selection /\ ~IsNa(arg[i]["Sector"])

\* C8: after the Reconciler, the early-stage pass or the outcome pass returns,
\* the table object the caller passed has the columns and cell values it had
\* before the call.
C8_ArgumentUntouched ==
    (op \in {"reconcile", "early", "outcome"} /\ raised = "") => argAfter = arg

-----------------------------------------------------------------------------
(* Claims about the feature functions (SpecFeature) *)

\* the feature functions that return one score per row
ScoreOps ==
    {"study_title", "experience", "salary", "study_area", "professional",
     "nlp_st", "nlp_st_prepared", "geo"}

\* a required input of the last call is missing in the row, or a text built
\* for the row is empty (for the experience score: the candidate's years are
\* missing while the required years are present)
MissingInput(row) ==
    CASE fop = "study_title" -> IsNa(row["Study Title"]) \/ IsNa(row["Study Level"])
      [] fop = "experience" ->
            IsNaN(row["Years Experience_int"]) /\ ~IsNaN(row["Years Experience.1_int"])
      [] fop = "salary" ->
            \/ IsNaN(row[IF fflag THEN "Expected Ral" ELSE "Current Ral"])
            \/ IsNaN(row["Minimum Ral"])
            \/ IsNaN(row["Ral Maximum"])
      [] fop = "study_area" -> IsNa(row["Study area"]) \/ IsNa(row["Study Area.1"])
      [] fop = "professional" -> IsNa(ProfCandidateText(row)) \/ IsNa(ProfJobText(row))
      [] fop \in {"nlp_st", "nlp_st_prepared"} ->
            row["candidate_text"] = <<>> \/ row["job_text"] = <<>>
      [] fop = "geo" -> RowAddress(row) = <<>>
      [] OTHER -> FALSE

\* the last call returned no-score for row i (distance and proximity for geo)
NoScoreAt(i) ==
    IF fop = "geo" THEN IsNaN(fret[1][i]) /\ IsNaN(fret[2][i]) ELSE IsNaN(fret[i])

\* C9: every feature function, on a row whose required input is missing or
\* whose built text is empty, does not raise and returns no-score for that
\* row (never 0 in its place); the experience score with the required years
\* missing is the only exception.
C9_MissingInputGivesNoScore ==
    fop \in ScoreOps =>
        \A i \in 1..Len(fin) : MissingInput(fin[i]) => fraised = "" /\ NoScoreAt(i)

\* the functions C10 names
FailureOps == {"study_area", "professional", "nlp_st", "nlp_st_prepared", "geo", "parse_experience"}

\* the collaborator (or the parse) failed on an input of row i of the last
\* call (for geo: the reference address or the row's address is unresolved)
RowFailed(i) ==
    LET row == fin[i]
    IN  CASE fop = "study_area" ->
              \/ ~IsNa(row["Study area"]) /\ encoder[row["Study area"]] = EncodeRaises
              \/ ~IsNa(row["Study Area.1"]) /\ encoder[row["Study Area.1"]] = EncodeRaises
          [] fop = "professional" ->
              /\ ~IsNa(ProfCandidateText(row)) /\ ~IsNa(ProfJobText(row))
              /\ \/ encoder[ProfCandidateText(row)] = EncodeRaises
                 \/ encoder[ProfJobText(row)] = EncodeRaises
          [] fop \in {"nlp_st", "nlp_st_prepared"} ->
              /\ fflag
              /\ \/ encoder[row["candidate_text"]] = EncodeRaises
                 \/ encoder[row["job_text"]] = EncodeRaises
          [] fop = "geo" ->
              /\ RowAddress(row) # <<>>
              /\ hq_coords = NoCoords \/ geocoding_cache[RowAddress(row)] = NoCoords
          [] OTHER -> IsNaN(parse_experience_string(row["Years Experience"]))

\* the score of row i when nothing fails on that row
ScoreWithoutFailure(i) ==
    LET row == fin[i]
    IN  CASE fop = "study_area" ->
              StudyAreaScore(row["Study area"], row["Study Area.1"], encoder)
          [] fop = "professional" -> ProfessionalScore(row, encoder)
          [] fop \in {"nlp_st", "nlp_st_prepared"} ->
              IF fflag THEN NlpRowScore(row, encoder) ELSE NaN
          [] fop = "geo" ->
              IF hq_coords = NoCoords \/ RowAddress(row) = <<>> THEN NaN
              ELSE GeodesicKm(geocoding_cache[RowAddress(row)], hq_coords)
          [] OTHER -> parse_experience_string(row["Years Experience"])

\* the score column the last call returned (the distance for geo)
ScoreColumn == IF fop = "geo" THEN fret[1] ELSE fret

\* C10: a failure on one row (embedding call raising, geocoder raising or
\* finding nothing, unparseable experience string) gives no-score for that
\* row only: no exception reaches the caller, a full column is returned, and
\* every other row has the score it has without the failure.
C10_RowFailureIsLocal ==
    fop \in FailureOps =>
        /\ fraised = ""
        /\ Len(ScoreColumn) = Len(fin)
        /\ \A i \in 1..Len(fin) :
              IF RowFailed(i) THEN IsNaN(ScoreColumn[i])
              ELSE ScoreColumn[i] = ScoreWithoutFailure(i)

-----------------------------------------------------------------------------
(* Claims about the geocoding functions (SpecGeo) *)

\* C11: within one process the geocoder is called at most once for each
\* distinct trimmed address, whatever the first call did (coordinates, no
\* result, exception): no address occurs twice in the record of calls.
C11_GeocoderOncePerAddress ==
    \A i, j \in 1..Len(geoLog) : geoLog[i].address = geoLog[j].address => i = j

\* C11 witness: calculate_geo_features resolved the reference address and
\* looked up one address for two rows; the geocoder raised on it and was
\* called for it once
C11_Witness ==
    /\ fop = "geo"
    /\ hq_coords # NoCoords
    /\ Len(fin) = 2
    /\ RowAddress(fin[1]) # <<>>
    /\ RowAddress(fin[1]) = RowAddress(fin[2])
    /\ \E k \in 1..Len(geoLog) :
          geoLog[k].address = RowAddress(fin[1]) /\ geoLog[k].outcome = "raise"

-----------------------------------------------------------------------------
(* Claims about the stateless feature functions (SpecScores) *)

\* the level is spelled exactly as one of the seven levels of the scale
OnScale(level) == \E k \in 1..7 : ordered_levels[k] = level

\* the rank (1 to 7) of a level of the scale
RankOnScale(level) == CHOOSE k \in 1..7 : ordered_levels[k] = level

\* the float x equals the fraction n / d (d > 0)
EqualsFraction(x, n, d) == x[2] > 0 /\ x[1] * d = n * x[2]

\* C12: calculate_study_title_score gives (candidate rank - required rank) / 6
\* when both levels are on the seven-rank scale (0 for equal levels, 2/6 for
\* a candidate two ranks above), and no-score when a level is missing or is
\* not spelled exactly as on the scale.
C12_StudyTitleScore ==
    fop = "study_title" =>
        /\ Len(fret) = Len(fin)
        /\ \A i \in 1..Len(fin) :
              LET c == fin[i]["Study Title"]
                  r == fin[i]["Study Level"]
              IN  IF OnScale(c) /\ OnScale(r)
                  THEN EqualsFraction(fret[i], RankOnScale(c) - RankOnScale(r), 6)
                  ELSE IsNaN(fret[i])

\* C12 witness: a candidate two ranks above the requirement scores 1/3 and
\* a candidate whose level is capitalised differently from the scale gets
\* no-score, in one table
C12_Witness ==
    /\ fop = "study_title"
    /\ Len(fin) = 2
    /\ fin[1]["Study Title"] = ordered_levels[6]
    /\ fin[1]["Study Level"] = ordered_levels[4]
    /\ fret[1] = <<1, 3>>
    /\ ~IsNa(fin[2]["Study Title"]) /\ ~OnScale(fin[2]["Study Title"])
    /\ fin[2]["Study Level"] = ordered_levels[4]
    /\ IsNaN(fret[2])

\* the candidate salary a salary run reads from row i
SalaryOf(i) == fin[i][IF fflag THEN "Expected Ral" ELSE "Current Ral"]

\* row i of a salary run has all three inputs and a non-empty range
SalaryCase(i) ==
    /\ ~IsNaN(SalaryOf(i)) /\ ~IsNaN(fin[i]["Minimum Ral"]) /\ ~IsNaN(fin[i]["Ral Maximum"])
    /\ RatLess(fin[i]["Minimum Ral"], fin[i]["Ral Maximum"])

\* C13: calculate_salary_fit_score, for a row with the three inputs present
\* and min_ral < max_ral, gives 1.0 when min_ral <= s <= max_ral,
\* (s - min_ral)/(max_ral - min_ral) when s < min_ral and
\* (s - max_ral)/(max_ral - min_ral) when s > max_ral; a salary below
\* min_ral by the size of the range scores -1.0.
C13_SalaryFitScore ==
    fop = "salary" =>
        \A i \in 1..Len(fin) :
            SalaryCase(i) =>
                LET s  == SalaryOf(i)
                    mn == fin[i]["Minimum Ral"]
                    mx == fin[i]["Ral Maximum"]
                    range == RatSub(mx, mn)
                IN  /\ RatLeq(mn, s) /\ RatLeq(s, mx) => fret[i] = Num(1)
                    /\ RatLess(s, mn) => fret[i] = RatDiv(RatSub(s, mn), range)
                    /\ RatLess(mx, s) => fret[i] = RatDiv(RatSub(s, mx), range)
                    /\ RatSub(mn, s) = range => fret[i] = Num(-1)

\* C13 witness: one table with a salary below the minimum by the size of the
\* range (score -1) and a salary exactly at the maximum (score 1)
C13_Witness ==
    /\ fop = "salary"
    /\ Len(fin) = 2
    /\ SalaryCase(1) /\ SalaryCase(2)
    /\ RatSub(fin[1]["Minimum Ral"], SalaryOf(1))
           = RatSub(fin[1]["Ral Maximum"], fin[1]["Minimum Ral"])
    /\ fret[1] = Num(-1)
    /\ SalaryOf(2) = fin[2]["Ral Maximum"]
    /\ fret[2] = Num(1)

\* the candidate and required years of the whole table that are present
YearsPresent ==
    {y \in {fin[i]["Years Experience_int"] : i \in 1..Len(fin)}
             \cup {fin[i]["Years Experience.1_int"] : i \in 1..Len(fin)} : ~IsNaN(y)}

\* D: the distance between the largest and the smallest year of the table,
\* or 1 when they are the same (some year is present)
YearsRange ==
    LET G_min == CHOOSE y \in YearsPresent : \A z \in YearsPresent : RatLeq(y, z)
        G_max == CHOOSE y \in YearsPresent : \A z \in YearsPresent : RatLeq(z, y)
    IN  IF G_max # G_min THEN RatSub(G_max, G_min) ELSE Num(1)

\* C14: calculate_experience_match_score gives every row
\* (candidate_years - required_years) / D with D the range of all candidate
\* and required years of the table (1 when the range is empty); the quotient
\* is no-score when the candidate years are missing; a row whose required
\* years are missing scores exactly 0, its candidate years present or not.
C14_ExperienceMatchScore ==
    fop = "experience" =>
        \A i \in 1..Len(fin) :
            LET c == fin[i]["Years Experience_int"]
                r == fin[i]["Years Experience.1_int"]
            IN  IF IsNaN(r) THEN fret[i] = Num(0)
                ELSE IF IsNaN(c) THEN IsNaN(fret[i])
                ELSE fret[i] = RatDiv(RatSub(c, r), YearsRange)

\* C14 witness: a table whose range (5) is set by two different rows; the
\* first row scores -2/5 and the second, without required years, scores 0
C14_Witness ==
    /\ fop = "experience"
    /\ Len(fin) = 2
    /\ fin[1]["Years Experience_int"] = Num(0)
    /\ fin[1]["Years Experience.1_int"] = Num(2)
    /\ fin[2]["Years Experience_int"] = Num(5)
    /\ IsNaN(fin[2]["Years Experience.1_int"])
    /\ fret[1] = <<-2, 5>>
    /\ fret[2] = Num(0)

\* the number in column col of row i of the table given to the last call
\* (missing when the column is not in the table or the cell is no number)
ValueInTable(i, col) ==
    IF col \notin DOMAIN fin[i] THEN NaN
    ELSE IF col = "Overall" THEN ToNumeric(fin[i][col])
    ELSE fin[i][col]

\* the same, with a requested 'Overall_scaled' that is not in the table
\* taken as the raw rating divided by 5 when the table has the raw rating
ValueOrDerived(i, col) ==
    IF col = "Overall_scaled" /\ col \notin DOMAIN fin[i] /\ "Overall" \in DOMAIN fin[i]
    THEN RatDiv(ToNumeric(fin[i]["Overall"]), Num(5))
    ELSE ValueInTable(i, col)

\* x is the mean of the values of xs that are present (no-score when none is)
IsMeanOfPresent(x, xs) ==
    LET present == {k \in 1..Len(xs) : ~IsNaN(xs[k])}
    IN  IF present = {} THEN IsNaN(x)
        ELSE x = RatDiv(SumPresent(xs), Num(Cardinality(present)))

\* C15 as stated: every row's overall score is the mean of its non-missing
\* values over the requested columns that exist in the table, every
\* requested column that does not exist being ignored.
C15_MeanOverExistingColumns ==
    fop = "overall" =>
        \A i \in 1..Len(fin) :
            IsMeanOfPresent(fret[i], [k \in 1..Len(fflag) |-> ValueInTable(i, fflag[k])])

\* C15 (amended): every row's overall score is the mean of its non-missing
\* numeric values over the requested columns, where a requested
\* 'Overall_scaled' that is not in the table is derived as Overall / 5 when
\* the table has 'Overall'; other requested columns that do not exist are
\* ignored; a row with no value present gets no-score.
C15_MeanWithDerivedRating ==
    fop = "overall" =>
        /\ Len(fret) = Len(fin)
        /\ \A i \in 1..Len(fin) :
              IsMeanOfPresent(fret[i], [k \in 1..Len(fflag) |-> ValueOrDerived(i, fflag[k])])

\* C15 witness: 'Overall_scaled' is requested with a feature score and is not
\* in the table, which has the raw rating 4: the first row's mean is
\* (1/2 + 4/5) / 2; the second row has no value present and gets no-score
C15_Witness ==
    /\ fop = "overall"
    /\ fflag = <<"Salary_Fit_Score", "Overall_scaled">>
    /\ Len(fin) = 2
    /\ DOMAIN fin[1] = {"Salary_Fit_Score", "Overall"}
    /\ fin[1]["Salary_Fit_Score"] = <<1, 2>> /\ fin[1]["Overall"] = <<"4">>
    /\ fret[1] = <<13, 20>>
    /\ IsNaN(fin[2]["Salary_Fit_Score"]) /\ fin[2]["Overall"] = <<"h", "i", "g", "h">>
    /\ IsNaN(fret[2])

-----------------------------------------------------------------------------
(* Claims about the order of the outcome pass (SpecFilter) *)

\* the pair (rank of the state in state_order, rank of the event type in
\* event_order) of a normalized row, -1 for a value absent from its list
RankPair(row) ==
    <<IndexOrMinus1(params.state_order, row["Candidate State"]),
      IndexOrMinus1(params.event_order, row["event_type__val"])>>

\* C16: in the outcome pass the terminal row of every identifier has the
\* lexicographically greatest pair (state rank in state_order, event rank in
\* event_order) among the rows of the identifier, also when a state occurs in
\* event_order or an event type occurs in state_order.
C16_TerminalRowHasGreatestPair ==
    OutcomeReturned =>
        \A id \in IdsOf(arg) :
            \A i \in GroupOf(arg, "ID", id) :
                ~TupleLess(RankPair(TerminalRow(id)), RankPair(OutcomeArgAfter(arg)[i]))

-----------------------------------------------------------------------------
(* Claims about the partitions of the Reconciler (SpecReconcile) *)

\* the rows of the argument that have the identifier of row i
GroupOfRow(i) == GroupOf(arg, "ID", arg[i]["ID"])

\* the combination of invariant values of row i of the argument
ComboOfRow(i) == Combo(arg[i], InvOfCall)

\* the distinct combinations in the group of row i
CombosOfGroup(i) == {ComboOfRow(j) : j \in GroupOfRow(i)}

\* C17: the Reconciler rewrites the identifier of a group exactly when the
\* group shows more than one combination of invariant values; a group of
\* identifier X with k > 1 combinations receives exactly X_1 .. X_k, one
\* identifier per combination, numbered in the sorted order of the
\* combinations (missing values last), whatever the order of the rows.
C17_SplitNumbering ==
    ReconcileReturned =>
        \A i \in Identified :
            LET X == arg[i]["ID"]
                k == Cardinality(CombosOfGroup(i))
            IN  /\ (RetId(i) # X) <=> (k > 1)
                /\ k > 1 =>
                      /\ {RetId(j) : j \in GroupOfRow(i)}
                             = {X \o <<"_">> \o IntToStr(n) : n \in 1..k}
                      /\ \A j \in GroupOfRow(i) :
                             (RetId(i) = RetId(j)) <=> (ComboOfRow(i) = ComboOfRow(j))
                      /\ RetId(i) = X \o <<"_">> \o IntToStr(
                             1 + Cardinality({d \in CombosOfGroup(i) : ComboLess(d, ComboOfRow(i))}))

\* C17 witness: a group of three rows with three combinations given in
\* descending order (the missing one first) is numbered 3, 2, 1
C17_Witness ==
    /\ ReconcileReturned
    /\ InvOfCall = <<"inv1">>
    /\ Len(arg) = 3
    /\ \A i \in 1..3 : arg[i]["ID"] = <<"A">>
    /\ IsNa(arg[1]["inv1"]) /\ arg[2]["inv1"] = <<"y">> /\ arg[3]["inv1"] = <<"x">>
    /\ ret[1]["ID"] = <<"A", "_", "3">>
    /\ ret[2]["ID"] = <<"A", "_", "2">>
    /\ ret[3]["ID"] = <<"A", "_", "1">>

\* row i of the argument has a missing value in some invariant column
HasMissingInvariant(i) == \E k \in 1..Len(InvOfCall) : IsNa(arg[i][InvOfCall[k]])

\* rows i and j have, in some invariant column, a missing value on one side
\* and a present value on the other
MissingAgainstPresent(i, j) ==
    \E k \in 1..Len(InvOfCall) : IsNa(arg[i][InvOfCall[k]]) # IsNa(arg[j][InvOfCall[k]])

\* C18: a missing invariant value is a value of its own: two rows of one
\* identifier with a missing value against a present one get different
\* identifiers, two rows with the same combination containing a missing value
\* get the same identifier, and every row with a missing invariant value is
\* returned, as often as it was given, with an identifier.
C18_MissingIsAValue ==
    ReconcileReturned =>
        /\ \A i \in 1..Len(arg) :
              HasMissingInvariant(i) =>
                  Count(StripId(ret), StripId(arg)[i]) = Count(StripId(arg), StripId(arg)[i])
        /\ \A r \in 1..Len(ret) :
              (\E k \in 1..Len(InvOfCall) : IsNa(ret[r][InvOfCall[k]])) => ~IsNa(ret[r]["ID"])
        /\ \A i, j \in Identified :
              arg[i]["ID"] = arg[j]["ID"] =>
                  /\ MissingAgainstPresent(i, j) => RetId(i) # RetId(j)
                  /\ (HasMissingInvariant(i) /\ ComboOfRow(i) = ComboOfRow(j))
                         => RetId(i) = RetId(j)

-----------------------------------------------------------------------------
(* Claims about whole identifiers in the filter passes *)

\* C19: the outcome pass keeps or removes an identifier as a whole: of every
\* identifier of the input, the output holds either every row (as normalized
\* by the pass), each as often as the input, or no row at all.
C19_WholeIdentifiers ==
    OutcomeReturned =>
        \A id \in IdsOf(arg) :
            \/ GroupOf(ret, "ID", id) = {}
            \/ /\ RowsWithId(ret, id) = RowsWithId(arg, id)
               /\ \A i \in GroupOf(argAfter, "ID", id) :
                      Count(ret, argAfter[i]) = Count(argAfter, argAfter[i])

\* C19 witness: an identifier of two rows whose terminal row is marked by its
\* event type loses both rows, the other row of the pair being no removal
\* event
C19_Witness ==
    /\ OutcomeReturned
    /\ Len(arg) = 2
    /\ arg[1]["ID"] = arg[2]["ID"]
    /\ ret = <<>>
    /\ TerminalRow(arg[1]["ID"])["event_type__val"] = economic_proposal
    /\ \E i \in 1..2 : argAfter[i]["event_type__val"] = interview

\* both runs of the two passes are over
BothRunsDone == pipe_step = 4

\* C20: the two filter passes commute: early-stage pass then outcome pass
\* retains the same identifiers, each with the same rows, as outcome pass
\* then early-stage pass; the outcome pass raises in both orders or in none.
C20_PassesCommute ==
    /\ pipe_step >= 3 => run_raised[1] = run_raised[2]
    /\ BothRunsDone =>
           /\ IdsOf(early_first) = IdsOf(outcome_first)
           /\ \A r \in Range(early_first) \cup Range(outcome_first) :
                  Count(early_first, r) = Count(outcome_first, r)

\* C20 witness: a table of two identifiers, one removed by the early-stage
\* pass alone and one by the outcome pass alone; both orders end without rows
C20_Witness ==
    /\ BothRunsDone
    /\ Len(table) = 2
    /\ table[1]["ID"] # table[2]["ID"]
    /\ IdsOf(EarlyRows(table)) = {table[2]["ID"]}
    /\ IdsOf(OutcomeRows(table, params.state_order, params.event_order,
                         params.feedbacks_to_remove)) = {table[1]["ID"]}
    /\ early_first = <<>>
    /\ outcome_first = <<>>

-----------------------------------------------------------------------------
(* Claims about the throttle delays and the cache (SpecGeo) *)

\* the step is a call get_coordinates_cached(a) for an address a that has an
\* entry in the cache
CachedLookupStep ==
    /\ fcalls' = fcalls + 1
    /\ fop' = "lookup"
    /\ ~IsNa(fin'[1])
    /\ Strip(fin'[1]) \in DOMAIN geocoding_cache

\* C21: every geocoder call (coordinates, no result, exception) is followed
\* by a delay before the lookup returns, so the record of calls grows only by
\* calls with a positive delay; a lookup answered from the cache adds no call
\* and no delay.
C21_DelayAfterEveryGeocoderCall ==
    [][/\ Len(geoLog') >= Len(geoLog)
       /\ \A k \in (Len(geoLog) + 1)..Len(geoLog') : geoLog'[k].sleep > 0
       /\ CachedLookupStep => geoLog' = geoLog]_vars

\* C21 witness: two geocoder calls were made, one raised and one returned
\* no result
C21_Witness ==
    /\ Len(geoLog) = 2
    /\ \E i, j \in 1..2 : geoLog[i].outcome = "raise" /\ geoLog[j].outcome = "none"

\* the delays recorded after the geocoder calls of one outcome
DelaysAfter(outcome) == {geoLog[k].sleep : k \in {i \in 1..Len(geoLog) : geoLog[i].outcome = outcome}}

\* C22: the delay after a failed geocoder call, be it a call
\* without result or a call that raised, is strictly shorter than the delay
\* after a successful call.
C22_FailureDelayShorter ==
    \A f \in DelaysAfter("none") \cup DelaysAfter("raise") :
        \A s \in DelaysAfter("coords") : f < s

\* the step is a call get_coordinates_cached(a) for an address a that is
\* neither missing nor blank
LookupStep ==
    /\ fcalls' = fcalls + 1
    /\ fop' = "lookup"
    /\ ~IsNa(fin'[1])
    /\ Strip(fin'[1]) # <<>>

\* C23: the cache only grows: every entry stays, with its value, in every
\* step; a lookup of a trimmed address returns the entry the cache has for
\* it after the call, which is the entry it had before the call if it had
\* one, so every later lookup returns what the first one returned.
C23_CacheOnlyGrows ==
    [][/\ \A a \in DOMAIN geocoding_cache :
              a \in DOMAIN geocoding_cache' /\ geocoding_cache'[a] = geocoding_cache[a]
       /\ LookupStep =>
              /\ Strip(fin'[1]) \in DOMAIN geocoding_cache'
              /\ fret' = <<geocoding_cache'[Strip(fin'[1])]>>]_vars

\* C23 witness: the reference address is looked up after a failed attempt
\* to resolve it: the cache holds the failure and the lookup returns it,
\* one geocoder call having been made in two calls
C23_Witness ==
    /\ fop = "lookup"
    /\ fcalls = 2
    /\ fin = <<HQ_LOCATION_STR>>
    /\ Len(geoLog) = 1
    /\ geoLog[1].outcome = "raise"
    /\ geocoding_cache[HQ_LOCATION_STR] = NoCoords
    /\ fret = <<NoCoords>>

\* the step is a call of calculate_geo_features that ends with the reference
\* address unresolved
GeoStepWithoutHq ==
    /\ fcalls' = fcalls + 1
    /\ fop' = "geo"
    /\ hq_coords' = NoCoords

\* C24: when calculate_geo_features cannot resolve the reference address,
\* every row's distance and proximity are no-score and the call sends no
\* other address than the reference address to the geocoder; over all calls
\* the reference address is sent to the geocoder at most once, whatever the
\* geocoder did with it.
C24_UnresolvedReference ==
    [][/\ GeoStepWithoutHq =>
              /\ fret' = <<[i \in 1..Len(fin') |-> NaN], [i \in 1..Len(fin') |-> NaN]>>
              /\ \A k \in (Len(geoLog) + 1)..Len(geoLog') :
                     geoLog'[k].address = HQ_LOCATION_STR
       /\ Cardinality({k \in 1..Len(geoLog') : geoLog'[k].address = HQ_LOCATION_STR}) <= 1]_vars

\* C24 witness: the second call, a calculate_geo_features on two rows with
\* addresses, ends with the reference address unresolved; the only geocoder
\* call made in the process is the failed one for the reference address
C24_Witness ==
    /\ fop = "geo"
    /\ fcalls = 2
    /\ hq_coords = NoCoords
    /\ Len(fin) = 2
    /\ RowAddress(fin[1]) # <<>> /\ RowAddress(fin[2]) # <<>>
    /\ geoLog = <<[address |-> HQ_LOCATION_STR, outcome |-> "none",
                  sleep |-> SleepAfterNoResult]>>
    /\ IsNaN(fret[1][1]) /\ IsNaN(fret[2][2])

-----------------------------------------------------------------------------
(* Claims about the identifiers the Reconciler creates (SpecReconcile) *)

\* C25: every identifier the Reconciler creates by splitting is fresh: it is
\* no identifier of the input table, and rows that had different identifiers
\* in the input do not share it.
C25_CreatedIdsAreFresh ==
    ReconcileReturned =>
        \A i \in Identified :
            RetId(i) # arg[i]["ID"] =>
                /\ RetId(i) \notin IdsOf(arg)
                /\ \A j \in Identified :
                       arg[j]["ID"] # arg[i]["ID"] => RetId(j) # RetId(i)

\* C27: the number of distinct identifiers does not decrease through the
\* Reconciler, and it stays the same only when no identifier was rewritten.
C27_DistinctIdsNeverDecrease ==
    ReconcileReturned =>
        /\ Cardinality(IdsOf(ret) \ {NA}) >= Cardinality(IdsOf(arg) \ {NA})
        /\ Cardinality(IdsOf(ret) \ {NA}) = Cardinality(IdsOf(arg) \ {NA}) => ~SomeIdRewritten

-----------------------------------------------------------------------------
(* Claims about the order of the input rows (SpecFilter) *)

\* the orders in which the rows of the argument can be given
RowOrders ==
    {p \in [1..Len(arg) -> 1..Len(arg)] : \A i, j \in 1..Len(arg) : p[i] = p[j] => i = j}

\* the identifiers the outcome pass removes from the argument given in the
\* order p, with the parameters of the last call
RemovedInOrder(p) ==
    IdsOf(arg) \ IdsOf(OutcomeRows([i \in 1..Len(arg) |-> arg[p[i]]], params.state_order,
                                   params.event_order, params.feedbacks_to_remove))

\* C26: the identifiers the outcome pass removes do not depend on the order
\* of the input rows, also when rows of one identifier tie on their ranks and
\* differ in feedback.
C26_RowOrderIndependent ==
    OutcomeReturned =>
        \A p \in RowOrders : RemovedInOrder(p) = IdsOf(arg) \ IdsOf(ret)

-----------------------------------------------------------------------------
(* Claims about the range of the scores (SpecScores) *)

\* C28: calculate_salary_fit_score, all inputs present: a salary strictly
\* below min_ral or strictly above max_ral never scores 1.0; below min_ral
\* the score is negative and above max_ral it is positive.
C28_OneOnlyInRange ==
    fop = "salary" =>
        \A i \in 1..Len(fin) :
            LET s  == SalaryOf(i)
                mn == fin[i]["Minimum Ral"]
                mx == fin[i]["Ral Maximum"]
            IN  (~IsNaN(s) /\ ~IsNaN(mn) /\ ~IsNaN(mx)) =>
                    /\ RatLess(s, mn) => (fret[i] # Num(1) /\ RatLess(fret[i], Num(0)))
                    /\ RatLess(mx, s) => (fret[i] # Num(1) /\ RatLess(Num(0), fret[i]))

\* row i of an experience run has candidate years and required years
BothYearsPresent(i) ==
    ~IsNaN(fin[i]["Years Experience_int"]) /\ ~IsNaN(fin[i]["Years Experience.1_int"])

\* C29: calculate_experience_match_score, on tables of integer years, gives
\* every row with both years present a score in [-1, 1], and the score 0 to
\* every such row when all the years of the table are equal.
C29_ExperienceScoreBounded ==
    fop = "experience" =>
        \A i \in 1..Len(fin) :
            BothYearsPresent(i) =>
                /\ RatLeq(Num(-1), fret[i]) /\ RatLeq(fret[i], Num(1))
                /\ Cardinality(YearsPresent) = 1 => fret[i] = Num(0)

\* C29 witness: a table of two rows, the first with the smallest candidate
\* years and the largest required years of the table, which scores -1
C29_Witness ==
    /\ fop = "experience"
    /\ Len(fin) = 2
    /\ BothYearsPresent(1) /\ BothYearsPresent(2)
    /\ fin[1]["Years Experience_int"] = Num(0)
    /\ fin[1]["Years Experience.1_int"] = Num(5)
    /\ fret[1] = Num(-1)
    /\ fret[2] # Num(-1)

-----------------------------------------------------------------------------
(* Claims about missing and blank addresses (SpecGeo) *)

\* the step is a call get_coordinates_cached(a) for a missing or blank a
BlankLookupStep ==
    /\ fcalls' = fcalls + 1
    /\ fop' = "lookup"
    /\ (IsNa(fin'[1]) \/ Strip(fin'[1]) = <<>>)

\* the step is a call of calculate_geo_features
GeoStep == fcalls' = fcalls + 1 /\ fop' = "geo"

\* C30: a missing or blank address is never sent to the geocoder and never
\* written to the cache: its lookup returns no coordinates and leaves the
\* cache and the record of calls (and so the delays) as they were, and a row
\* whose four residence fields give a blank address gets no-score for
\* distance and proximity.
C30_BlankAddressNeverGeocoded ==
    [][/\ <<>> \notin DOMAIN geocoding_cache'
       /\ \A k \in 1..Len(geoLog') : geoLog'[k].address # <<>>
       /\ BlankLookupStep =>
              /\ fret' = <<NoCoords>>
              /\ geocoding_cache' = geocoding_cache
              /\ geoLog' = geoLog
       /\ GeoStep =>
              \A i \in 1..Len(fin') :
                  RowAddress(fin'[i]) = <<>> => (IsNaN(fret'[1][i]) /\ IsNaN(fret'[2][i]))]_vars

\* C30 witness: calculate_geo_features resolved the reference address and an
\* address of one row and gave no-score to the other row, whose residence
\* fields are all missing
C30_Witness ==
    /\ fop = "geo"
    /\ hq_coords # NoCoords
    /\ Len(fin) = 2
    /\ fin[1] = BlankGeoRow
    /\ IsNaN(fret[1][1]) /\ IsNaN(fret[2][1])
    /\ ~IsNaN(fret[1][2])
    /\ DOMAIN geocoding_cache = {HQ_LOCATION_STR, RowAddress(fin[2])}

====
